---------------------------- MODULE Spec2Model ----------------------------
(***************************************************************************)
(* A model of the CV screening backend: the rule-based matching engine     *)
(* (app/services/matcher.py), the job-description endpoints                *)
(* (app/api/job_description.py with app/schemas/job_description.py), the   *)
(* background matching task (app/api/matching.py) with its database        *)
(* session, the dictionary extraction of skills and tools                  *)
(* (app/services/ats_parser.py, app/services/data_extractor.py), the       *)
(* rule-based CV parser (app/services/ats_parser.py), the AI parser        *)
(* (app/services/gemini_parser.py), the shortlist and reject endpoints     *)
(* (app/api/matching.py), the profile evaluator                            *)
(* (app/services/profile_evaluator.py) and the batch upload                *)
(* (app/api/upload.py with app/services/ocr_pipeline.py).                  *)
(*                                                                         *)
(* Conventions.                                                            *)
(*  - A Python str is a sequence of one-character strings, so that         *)
(*    str.lower() and the substring test `a in b` are computed.            *)
(*    A character outside ASCII is named: "ndash", "mdash", "bullet".      *)
(*  - An optional (nullable) value is None == <<>> or Some(v) == <<v>>.    *)
(*  - A Python float score is an exact rational <<num, den>> in lowest     *)
(*    terms: every score of the matcher is a rational function of the      *)
(*    integer weights and small counts.                                    *)
(***************************************************************************)
EXTENDS Integers, Sequences, FiniteSets, TLC

VARIABLES
    \* --- scoring (CandidateMatcher.match_candidate) ---
    candidate,      \* the Candidate row handed to match_candidate
    jd,             \* the JobDescription row handed to match_candidate
    hashSeed,       \* the interpreter's string-hash seed (fixed per process)
    result,         \* outcome of the latest match_candidate call
    prevResult,     \* outcome of the call before it (same candidate and jd)
    \* --- job description endpoints ---
    jobs,           \* job_descriptions table: jd_id -> row
    lastRequest,    \* the latest POST /jd or PUT /jd/{jd_id} and its outcome
    \* --- background matching ---
    candidates,     \* candidates table: candidate_id -> [batch_id, extraction_status]
    matchResults,   \* match_results table: a bag of rows
    tasks,          \* run_matching_task executions: task -> local state
    runLog,         \* history: finished runs, newest first (at most two are
                    \* kept), or the pairs a decision was stored on
    session,        \* task -> state of its database session and the
                    \* candidates whose own scoring or storing raised
    \* --- rule-based extraction (ATSParser, DataExtractor) ---
    cvLines,        \* the CV text: its lines, each a sequence of words
    termDict,       \* the dictionary of terms the extractor was built with
    pyBuild,        \* the Python version the service runs on
    extracted,      \* outcome of the latest dictionary extraction
    parsed,         \* outcome of the latest ATSParser.parse call
    \* --- AI extraction (GeminiParser) ---
    geminiEnabled,  \* GeminiParser.enabled
    apiCall,        \* the running _call_api: attempt, requests sent, return
    lastResponse,   \* what the latest request to the AI service ended in
    sections,       \* outcome of the latest extract_sections call
    \* --- derived metrics (ProfileEvaluator, calculate_confidence) ---
    profile,        \* the extracted data handed to the evaluator
    clock,          \* datetime.now(): the year and month of the call
    metrics,        \* outcome of the latest evaluator call
    \* --- batch upload (process_cv_batch_task) ---
    batch           \* the batches row, the files of the batch and the
                    \* position of the background task that works on them

vars == <<candidate, jd, hashSeed, result, prevResult, jobs, lastRequest,
          candidates, matchResults, tasks, runLog, session,
          cvLines, termDict, pyBuild, extracted, parsed,
          geminiEnabled, apiCall, lastResponse, sections,
          profile, clock, metrics, batch>>

scoreVars == <<candidate, jd, hashSeed, result, prevResult>>
jdVars    == <<jobs, lastRequest>>
matchVars == <<candidates, matchResults, tasks, runLog, session>>
parseVars == <<cvLines, termDict, pyBuild, extracted, parsed>>
geminiVars == <<geminiEnabled, apiCall, lastResponse, sections>>
evalVars  == <<profile, clock, metrics>>
uploadVars == <<batch>>
extVars   == <<parseVars, geminiVars, evalVars, uploadVars>>

----------------------------------------------------------------------------
(* Optional values *)

None == <<>>
Some(v) == <<v>>
\* Python `x or []` / `x or ''`
OrEmpty(o) == IF o = None THEN <<>> ELSE o[1]
\* Python truthiness of an optional list or str
Truthy(o) == o # None /\ Len(o[1]) > 0

Range(s) == {s[i] : i \in DOMAIN s}

\* The element of a set of one element: {e(x) : x \in {v}} has v worked
\* out once, as a local variable of the code is
TheOne(S) == CHOOSE x \in S : TRUE

----------------------------------------------------------------------------
(* Strings *)

UpperCase == <<"A","B","C","D","E","F","G","H","I","J","K","L","M",
               "N","O","P","Q","R","S","T","U","V","W","X","Y","Z">>
LowerCase == <<"a","b","c","d","e","f","g","h","i","j","k","l","m",
               "n","o","p","q","r","s","t","u","v","w","x","y","z">>

Digits == <<"0","1","2","3","4","5","6","7","8","9">>

Chars == Range(UpperCase) \cup Range(LowerCase) \cup Range(Digits)
            \cup {" ", "/", ".", "-", "+", "#", "|", "@", ":", ",", "_", "\n",
                  "(", ")", "&", ";", "*", "%", "<", ">", "'", "=", "?",
                  "ndash", "mdash", "bullet"}

\* c.lower() for every character of the alphabet
LowerMap ==
    [c \in Chars |->
        IF \E i \in DOMAIN UpperCase : UpperCase[i] = c
        THEN LowerCase[CHOOSE i \in DOMAIN UpperCase : UpperCase[i] = c]
        ELSE c]

LowerChar(c) == LowerMap[c]

\* str.lower()
Lower(s) == [i \in DOMAIN s |-> LowerChar(s[i])]

\* [x.lower() for x in xs]
LowerAll(xs) == [i \in DOMAIN xs |-> Lower(xs[i])]

\* Python `kw in text` on two str
Contains(text, kw) ==
    \E i \in 0..(Len(text) - Len(kw)) : SubSeq(text, i + 1, i + Len(kw)) = kw

----------------------------------------------------------------------------
(* Exact rationals for the float scores *)

RECURSIVE GCD(_, _)
GCD(a, b) == IF b = 0 THEN a ELSE GCD(b, a % b)

\* n/d in lowest terms, d > 0
R(n, d) == LET g == GCD(IF n < 0 THEN -n ELSE n, d)
           IN  IF n = 0 THEN <<0, 1>> ELSE <<n \div g, d \div g>>
RInt(n) == <<n, 1>>
RAdd(x, y) == R(x[1] * y[2] + y[1] * x[2], x[2] * y[2])
RMul(x, y) == R(x[1] * y[1], x[2] * y[2])
RLe(x, y)  == x[1] * y[2] <= y[1] * x[2]
RLt(x, y)  == x[1] * y[2] < y[1] * x[2]
RMin(x, y) == IF RLe(x, y) THEN x ELSE y

----------------------------------------------------------------------------
(* Python set -> list.  The iteration order of a set of str follows the    *)
(* string hashes, which CPython salts with a seed drawn once per process:  *)
(* within one process the order of a given set is fixed, across processes  *)
(* it is not.  A seed stands for the order it induces.                     *)

HashSeeds == {"h1", "h2"}

\* Position of a character in the order that the seeds sort by
CharRankMap ==
    [c \in Chars |->
        IF \E i \in DOMAIN LowerCase : LowerCase[i] = c
        THEN CHOOSE i \in DOMAIN LowerCase : LowerCase[i] = c
        ELSE 0]

CharRank(c) == CharRankMap[c]

RECURSIVE StrLess(_, _)
StrLess(a, b) ==
    IF Len(b) = 0 THEN FALSE
    ELSE IF Len(a) = 0 THEN TRUE
    ELSE IF CharRank(Head(a)) # CharRank(Head(b))
         THEN CharRank(Head(a)) < CharRank(Head(b))
         ELSE StrLess(Tail(a), Tail(b))

IterBefore(a, b, seed) == IF seed = "h1" THEN StrLess(a, b) ELSE StrLess(b, a)

RECURSIVE SetToList(_, _)
SetToList(S, seed) ==
    IF S = {} THEN <<>>
    ELSE LET first == CHOOSE x \in S : \A y \in S : ~IterBefore(y, x, seed)
         IN  <<first>> \o SetToList(S \ {first}, seed)

\* xs[:n]
Take(xs, n) == SubSeq(xs, 1, IF Len(xs) < n THEN Len(xs) ELSE n)

----------------------------------------------------------------------------
(* app/services/dictionaries.py *)

get_role_equivalents ==
       (<<"b","i","m"," ","a","r","c","h","i","t","e","c","t">> :>
         << <<"b","i","m"," ","d","e","s","i","g","n","e","r">>,
            <<"a","r","c","h","i","t","e","c","t","u","r","a","l"," ","d","e","s","i","g","n","e","r">>,
            <<"d","e","s","i","g","n"," ","a","r","c","h","i","t","e","c","t">> >>)
    @@ (<<"b","i","m"," ","m","a","n","a","g","e","r">> :>
         << <<"b","i","m"," ","c","o","o","r","d","i","n","a","t","o","r">>,
            <<"b","i","m"," ","l","e","a","d">>,
            <<"v","d","c"," ","m","a","n","a","g","e","r">> >>)
    @@ (<<"p","r","o","j","e","c","t"," ","m","a","n","a","g","e","r">> :>
         << <<"p","m">>,
            <<"p","r","o","g","r","a","m"," ","m","a","n","a","g","e","r">>,
            <<"p","r","o","j","e","c","t"," ","l","e","a","d">> >>)
    @@ (<<"s","o","f","t","w","a","r","e"," ","e","n","g","i","n","e","e","r">> :>
         << <<"d","e","v","e","l","o","p","e","r">>,
            <<"p","r","o","g","r","a","m","m","e","r">>,
            <<"s","o","f","t","w","a","r","e"," ","d","e","v","e","l","o","p","e","r">> >>)
    @@ (<<"s","e","n","i","o","r"," ","d","e","v","e","l","o","p","e","r">> :>
         << <<"l","e","a","d"," ","d","e","v","e","l","o","p","e","r">>,
            <<"p","r","i","n","c","i","p","a","l"," ","e","n","g","i","n","e","e","r">>,
            <<"s","t","a","f","f"," ","e","n","g","i","n","e","e","r">> >>)
    @@ (<<"d","a","t","a"," ","s","c","i","e","n","t","i","s","t">> :>
         << <<"m","l"," ","e","n","g","i","n","e","e","r">>,
            <<"d","a","t","a"," ","a","n","a","l","y","s","t">>,
            <<"r","e","s","e","a","r","c","h"," ","s","c","i","e","n","t","i","s","t">> >>)
    @@ (<<"u","i","/","u","x"," ","d","e","s","i","g","n","e","r">> :>
         << <<"p","r","o","d","u","c","t"," ","d","e","s","i","g","n","e","r">>,
            <<"u","x"," ","d","e","s","i","g","n","e","r">>,
            <<"i","n","t","e","r","a","c","t","i","o","n"," ","d","e","s","i","g","n","e","r">> >>)

----------------------------------------------------------------------------
(* app/services/matcher.py: the six category scores *)

\* Mutant: the bonus is taken per matched skill, not per ratio
SkillTierScore_PerMatch(required, matched, budget, basePct, bonusPct) ==
    IF required > 0
    THEN IF matched > 0
         THEN RAdd(RMul(R(basePct, 100), budget),
                   RMul(RInt(matched), RMul(R(bonusPct, 100), budget)))
         ELSE RInt(0)
    ELSE budget

\* Mutant: a tier with no match is scored like a tier with no requirement
SkillTierScore_NoMatchFull(required, matched, budget, basePct, bonusPct) ==
    IF required > 0 /\ matched > 0
    THEN RAdd(RMul(R(basePct, 100), budget),
              RMul(R(matched, required), RMul(R(bonusPct, 100), budget)))
    ELSE budget

\* Mutant: the "simple proportional" score of the docstring
SkillTierScore_Proportional(required, matched, budget, basePct, bonusPct) ==
    IF required > 0 THEN RMul(R(matched, required), budget) ELSE budget

\* One tier of the skill score (the must-have and the nice-to-have branch
\* have the same shape): required and matched are set sizes, budget the
\* tier's share of the weight, base + bonus fractions in hundredths.
SkillTierScore(required, matched, budget, basePct, bonusPct) ==
    IF required > 0
    THEN IF matched > 0      \* match_ratio > 0
         THEN RAdd(RMul(R(basePct, 100), budget),
                   RMul(R(matched, required), RMul(R(bonusPct, 100), budget)))
         ELSE RInt(0)
    ELSE budget

_calculate_skill_score(c, j, seed) ==
    LET candidate_skills == Range(LowerAll(OrEmpty(c.skills)))
        must_have        == Range(LowerAll(j.must_have_skills))
        nice_to_have     == Range(LowerAll(OrEmpty(j.nice_to_have_skills)))
        matched_must_have    == candidate_skills \cap must_have
        missing_must_have    == must_have \ candidate_skills
        matched_nice_to_have == candidate_skills \cap nice_to_have
        max_points          == j.skill_weight
        must_have_weight    == RMul(R(75, 100), RInt(max_points))
        nice_to_have_weight == RMul(R(25, 100), RInt(max_points))
        must_have_score ==
            SkillTierScore(Cardinality(must_have), Cardinality(matched_must_have),
                           must_have_weight, 85, 15)
        nice_to_have_score ==
            SkillTierScore(Cardinality(nice_to_have), Cardinality(matched_nice_to_have),
                           nice_to_have_weight, 90, 10)
    IN  [ weighted |-> RAdd(must_have_score, nice_to_have_score),
          max      |-> max_points,
          matched  |-> SetToList(matched_must_have \cup matched_nice_to_have, seed),
          missing  |-> SetToList(missing_must_have, seed),
          matched_must_have    |-> Cardinality(matched_must_have),
          total_must_have      |-> Cardinality(must_have),
          matched_nice_to_have |-> Cardinality(matched_nice_to_have),
          total_nice_to_have   |-> Cardinality(nice_to_have) ]

\* The keyword loop of _calculate_role_score from position i on: the first
\* keyword that is in the text, or one of whose equivalents is, decides.
RECURSIVE RoleScan(_, _, _)
RoleScan(role_keywords_lower, candidate_text, i) ==
    IF i > Len(role_keywords_lower) THEN "no_match"
    ELSE LET keyword == role_keywords_lower[i]
         IN  IF Contains(candidate_text, keyword) THEN "exact"
             ELSE IF /\ keyword \in DOMAIN get_role_equivalents
                     /\ \E k \in DOMAIN get_role_equivalents[keyword] :
                            Contains(candidate_text,
                                     Lower(get_role_equivalents[keyword][k]))
                  THEN "equivalent"
                  ELSE RoleScan(role_keywords_lower, candidate_text, i + 1)

_calculate_role_score(c, j) ==
    LET max_points == j.role_weight
    IN  IF ~Truthy(j.role_keywords)
        THEN [weighted |-> RInt(max_points), max |-> max_points,
              match_type |-> "no_requirements"]
        ELSE LET candidate_text == Lower(OrEmpty(c.raw_text))
                 match_type == RoleScan(LowerAll(j.role_keywords[1]),
                                        candidate_text, 1)
             IN  [weighted |-> CASE match_type = "exact" -> RInt(max_points)
                                 [] match_type = "equivalent" ->
                                        RMul(RInt(max_points), R(75, 100))
                                 [] OTHER -> RInt(0),
                  max |-> max_points,
                  match_type |-> match_type]

\* Mutant: proportional tool score
ToolCurve_Proportional(required, matched, max_points) ==
    IF required > 0 THEN RMul(R(matched, required), RInt(max_points))
    ELSE RInt(max_points)

\* The scoring branch of _calculate_tool_score on the two set sizes
ToolCurve(required, matched, max_points) ==
    IF required > 0
    THEN IF matched > 0      \* match_ratio > 0
         THEN RMul(RAdd(R(90, 100), RMul(R(matched, required), R(10, 100))),
                   RInt(max_points))
         ELSE RInt(0)
    ELSE RInt(max_points)

_calculate_tool_score(c, j, seed) ==
    LET max_points == j.tool_weight
    IN  IF ~Truthy(j.required_tools)
        THEN [weighted |-> RInt(max_points), max |-> max_points,
              matched |-> <<>>, missing |-> <<>>]
        ELSE LET candidate_tools == Range(LowerAll(OrEmpty(c.tools)))
                 required_tools  == Range(LowerAll(j.required_tools[1]))
                 matched_tools   == candidate_tools \cap required_tools
                 missing_tools   == required_tools \ candidate_tools
                 score == ToolCurve(Cardinality(required_tools),
                                    Cardinality(matched_tools), max_points)
             IN  [weighted |-> score, max |-> max_points,
                  matched |-> SetToList(matched_tools, seed),
                  missing |-> SetToList(missing_tools, seed)]

\* Mutant: no benefit of the doubt
ExperienceCurve_Strict(experience_count, max_points) ==
    IF experience_count > 0 THEN RInt(max_points) ELSE RInt(0)

\* The scoring branch of _calculate_experience_score
ExperienceCurve(experience_count, max_points) ==
    IF experience_count > 0
    THEN RInt(max_points)
    ELSE RMul(RInt(max_points), R(70, 100))

_calculate_experience_score(c, j) ==
    LET max_points == j.experience_weight
        experience == OrEmpty(c.experience)
        score == ExperienceCurve(Len(experience), max_points)
    IN  [weighted |-> RMin(score, RInt(max_points)),
         max |-> max_points,
         experience_count |-> Len(experience)]

\* Mutant: the 80% base needs a portfolio link
PortfolioCurve_LinkOnly(portfolio_count, keyword_matches, keyword_count, max_points) ==
    LET base == IF portfolio_count > 0
                THEN RMul(RInt(max_points), R(80, 100))
                ELSE RInt(0)
    IN  IF keyword_count > 0 /\ keyword_matches > 0
        THEN RAdd(base, RMul(R(keyword_matches, keyword_count),
                             RMul(RInt(max_points), R(20, 100))))
        ELSE base

\* The scoring branch of _calculate_portfolio_score
PortfolioCurve(portfolio_count, keyword_matches, keyword_count, max_points) ==
    LET base == IF portfolio_count > 0 \/ keyword_matches > 0
                THEN RMul(RInt(max_points), R(80, 100))
                ELSE RInt(0)
    IN  IF keyword_count > 0 /\ keyword_matches > 0
        THEN RAdd(base, RMul(R(keyword_matches, keyword_count),
                             RMul(RInt(max_points), R(20, 100))))
        ELSE base

_calculate_portfolio_score(c, j) ==
    LET max_points == j.portfolio_weight
        portfolio_urls == OrEmpty(c.portfolio_urls)
        raw_text == Lower(OrEmpty(c.raw_text))
        jd_keywords == OrEmpty(j.role_keywords) \o j.must_have_skills
        jd_keywords_lower == LowerAll(jd_keywords)
        keyword_matches ==
            Cardinality({i \in DOMAIN jd_keywords_lower :
                            Contains(raw_text, jd_keywords_lower[i])})
        score == PortfolioCurve(Len(portfolio_urls), keyword_matches,
                                Len(jd_keywords), max_points)
    IN  [weighted |-> RMin(score, RInt(max_points)),
         max |-> max_points,
         portfolio_count |-> Len(portfolio_urls),
         keyword_matches |-> keyword_matches]

\* A quality score that rewards a high OCR quality instead of ignoring it
_calculate_quality_score_OcrBonus(c, j) ==
    LET max_points == j.quality_weight
        high == c.ocr_quality_score # None /\ c.ocr_quality_score[1] >= 80
        score == IF high THEN RInt(max_points)
                 ELSE RMul(RInt(max_points), R(90, 100))
    IN  [weighted |-> RMin(score, RInt(max_points)),
         max |-> max_points,
         ocr_quality |-> c.ocr_quality_score]

\* The scoring branch of _calculate_quality_score
QualityCurve(has_contacts, max_points) ==
    IF has_contacts THEN RInt(max_points)
    ELSE RMul(RInt(max_points), R(90, 100))

_calculate_quality_score(c, j) ==
    LET max_points == j.quality_weight
        score == QualityCurve(Truthy(c.email) /\ Truthy(c.phone), max_points)
    IN  [weighted |-> RMin(score, RInt(max_points)),
         max |-> max_points,
         ocr_quality |-> c.ocr_quality_score]

----------------------------------------------------------------------------
(* app/services/matcher.py: justification and match_candidate *)

\* One bullet of the justification.  The text of a bullet is determined by
\* its kind, the two numbers and the (already truncated) item list.
Bullet(kind, a, b, items) == [kind |-> kind, a |-> a, b |-> b, items |-> items]

\* ', '.join(xs[:3]) followed by " (+k more)" when len(xs) > 3: the items
\* shown and the number k (0 when nothing is appended).
MoreCount(xs) == IF Len(xs) > 3 THEN Len(xs) - 3 ELSE 0

\* `quality_score.get('ocr_quality', 0) >= 80`: the key is always present, so
\* the default never applies, and None >= 80 raises TypeError.
OcrComparisonRaises(quality_score) == quality_score.ocr_quality = None

\* A justification that reports the role match after all other bullets
_generate_justification_RoleLast(skill_score, role_score, tool_score, experience_score, portfolio_score, quality_score) ==
    LET b1 == IF skill_score.matched_must_have > 0
              THEN <<Bullet("matches_required_skills",
                            skill_score.matched_must_have,
                            skill_score.total_must_have, <<>>)>>
              ELSE <<>>
        b2 == IF Len(skill_score.missing) > 0
              THEN <<Bullet("missing_must_have_skills", 0,
                            MoreCount(skill_score.missing),
                            Take(skill_score.missing, 3))>>
              ELSE <<>>
        b3 == IF role_score.match_type = "exact"
              THEN <<Bullet("matching_job_title", 0, 0, <<>>)>>
              ELSE IF role_score.match_type = "equivalent"
                   THEN <<Bullet("equivalent_job_title", 0, 0, <<>>)>>
                   ELSE <<>>
        b4 == IF Len(tool_score.matched) > 0
              THEN <<Bullet("proficient_in_tools", Len(tool_score.matched),
                            MoreCount(tool_score.matched),
                            Take(tool_score.matched, 3))>>
              ELSE <<>>
        b5 == IF Len(tool_score.missing) > 0
              THEN <<Bullet("missing_tools", 0, MoreCount(tool_score.missing),
                            Take(tool_score.missing, 3))>>
              ELSE <<>>
        b6 == IF experience_score.experience_count > 0
              THEN <<Bullet("relevant_experience",
                            experience_score.experience_count, 0, <<>>)>>
              ELSE <<>>
        b7 == IF portfolio_score.portfolio_count > 0
              THEN <<Bullet("portfolio_references",
                            portfolio_score.portfolio_count, 0, <<>>)>>
              ELSE <<>>
        b8 == IF quality_score.ocr_quality[1] >= 80
              THEN <<Bullet("high_quality_cv", 0, 0, <<>>)>>
              ELSE <<>>
        bullets == b1 \o b2 \o b4 \o b5 \o b6 \o b7 \o b8 \o b3
    IN  IF Len(bullets) > 0 THEN bullets
        ELSE <<Bullet("minimal_matching_criteria", 0, 0, <<>>)>>

_generate_justification(skill_score, role_score, tool_score, experience_score, portfolio_score, quality_score) ==
    LET b1 == IF skill_score.matched_must_have > 0
              THEN <<Bullet("matches_required_skills",
                            skill_score.matched_must_have,
                            skill_score.total_must_have, <<>>)>>
              ELSE <<>>
        b2 == IF Len(skill_score.missing) > 0
              THEN <<Bullet("missing_must_have_skills", 0,
                            MoreCount(skill_score.missing),
                            Take(skill_score.missing, 3))>>
              ELSE <<>>
        b3 == IF role_score.match_type = "exact"
              THEN <<Bullet("matching_job_title", 0, 0, <<>>)>>
              ELSE IF role_score.match_type = "equivalent"
                   THEN <<Bullet("equivalent_job_title", 0, 0, <<>>)>>
                   ELSE <<>>
        b4 == IF Len(tool_score.matched) > 0
              THEN <<Bullet("proficient_in_tools", Len(tool_score.matched),
                            MoreCount(tool_score.matched),
                            Take(tool_score.matched, 3))>>
              ELSE <<>>
        b5 == IF Len(tool_score.missing) > 0
              THEN <<Bullet("missing_tools", 0, MoreCount(tool_score.missing),
                            Take(tool_score.missing, 3))>>
              ELSE <<>>
        b6 == IF experience_score.experience_count > 0
              THEN <<Bullet("relevant_experience",
                            experience_score.experience_count, 0, <<>>)>>
              ELSE <<>>
        b7 == IF portfolio_score.portfolio_count > 0
              THEN <<Bullet("portfolio_references",
                            portfolio_score.portfolio_count, 0, <<>>)>>
              ELSE <<>>
        b8 == IF quality_score.ocr_quality[1] >= 80
              THEN <<Bullet("high_quality_cv", 0, 0, <<>>)>>
              ELSE <<>>
        bullets == b1 \o b2 \o b3 \o b4 \o b5 \o b6 \o b7 \o b8
    IN  IF Len(bullets) > 0 THEN bullets
        ELSE <<Bullet("minimal_matching_criteria", 0, 0, <<>>)>>

\* What a call leaves when there is no MatchResult: before any call
\* ("none") and when the call raised ("raised").
NoMatchResult(status) ==
    [status |-> status,
     total_score |-> RInt(0), skill_score |-> RInt(0), role_score |-> RInt(0),
     tool_score |-> RInt(0), experience_score |-> RInt(0),
     portfolio_score |-> RInt(0), quality_score |-> RInt(0),
     match_type |-> "", justification |-> <<>>,
     matched_skills |-> <<>>, missing_skills |-> <<>>, matched_tools |-> <<>>]

match_candidate(c, j, seed) ==
    LET skill_score      == _calculate_skill_score(c, j, seed)
        role_score       == _calculate_role_score(c, j)
        tool_score       == _calculate_tool_score(c, j, seed)
        experience_score == _calculate_experience_score(c, j)
        portfolio_score  == _calculate_portfolio_score(c, j)
        quality_score    == _calculate_quality_score(c, j)
        total_score ==
            RAdd(RAdd(RAdd(RAdd(RAdd(skill_score.weighted, role_score.weighted),
                                tool_score.weighted),
                           experience_score.weighted),
                      portfolio_score.weighted),
                 quality_score.weighted)
    IN  IF OcrComparisonRaises(quality_score)
        THEN NoMatchResult("raised")
        ELSE [status |-> "returned",
              total_score      |-> total_score,
              skill_score      |-> skill_score.weighted,
              role_score       |-> role_score.weighted,
              tool_score       |-> tool_score.weighted,
              experience_score |-> experience_score.weighted,
              portfolio_score  |-> portfolio_score.weighted,
              quality_score    |-> quality_score.weighted,
              match_type       |-> role_score.match_type,
              justification    |->
                  _generate_justification(skill_score, role_score, tool_score,
                      experience_score, portfolio_score, quality_score),
              matched_skills |-> skill_score.matched,
              missing_skills |-> skill_score.missing,
              matched_tools  |-> tool_score.matched]

----------------------------------------------------------------------------
(* Inputs of the scoring specification *)

\* Bounds of the input space
MaxListLen   == 2   \* longest skill / tool / role-keyword list
MaxFragments == 2   \* most text fragments in a raw_text
MaxEntries   == 2   \* most experience entries / portfolio links

\* All lists over S of length at most n, and the nullable column holding one
Lists(S, n)    == UNION {[1..k -> S] : k \in 0..n}
OptLists(S, n) == {None} \cup {Some(l) : l \in Lists(S, n)}

str_revit      == <<"r","e","v","i","t">>
str_Revit      == <<"R","e","v","i","t">>
str_autocad    == <<"a","u","t","o","c","a","d">>
str_navisworks == <<"n","a","v","i","s","w","o","r","k","s">>
str_Navisworks == <<"N","a","v","i","s","w","o","r","k","s">>
str_BIM_Manager        == <<"B","I","M"," ","M","a","n","a","g","e","r">>
str_Project_Manager    == <<"P","r","o","j","e","c","t"," ","M","a","n","a","g","e","r">>
str_Senior_BIM_Manager == <<"S","e","n","i","o","r"," ","B","I","M"," ","M","a","n","a","g","e","r">>
str_bim_lead           == <<"b","i","m"," ","l","e","a","d">>
str_contact            == <<"x">>

\* Names as the CV gives them and as the job gives them: they differ in case
CandidateSkillNames == {str_Revit, str_autocad}
JobSkillNames       == {str_revit, str_autocad}
CandidateToolNames  == {str_Navisworks, str_revit}
JobToolNames        == {str_navisworks, str_revit}
RoleKeywords        == {str_BIM_Manager, str_Project_Manager}

\* raw_text is built from these fragments, each followed by a blank
TextFragments == <<str_Senior_BIM_Manager, str_bim_lead, str_Project_Manager, str_Revit>>

RECURSIVE JoinFragments(_, _)
JoinFragments(I, i) ==
    IF i > Len(TextFragments) THEN <<>>
    ELSE (IF i \in I THEN TextFragments[i] \o <<" ">> ELSE <<>>)
         \o JoinFragments(I, i + 1)

RawTexts == {None} \cup
            {Some(JoinFragments(I, 1)) :
                I \in {J \in SUBSET DOMAIN TextFragments : Cardinality(J) <= MaxFragments}}

EntryLists == OptLists({"entry"}, MaxEntries)
Contacts   == {None, Some(<<>>), Some(str_contact)}
OcrScores  == {None, Some(79), Some(80)}

\* The six weights, in the order skill, role, tool, experience, portfolio,
\* quality: the defaults of JobDescriptionCreate
DefaultWeights == <<40, 20, 15, 15, 10, 5>>

\* The weights of the jobs scored: the defaults, weights given in full
\* (summing to 100, one of them 0), and what POST /jd stores for a request
\* that gives only skill_weight = 50 (summing to 115).
WeightVectors == { DefaultWeights,
                   <<10, 10, 30, 0, 20, 30>>,
                   <<50, 20, 15, 15, 10, 5>> }

WithWeights(j, w) ==
    [j EXCEPT !.skill_weight = w[1], !.role_weight = w[2], !.tool_weight = w[3],
              !.experience_weight = w[4], !.portfolio_weight = w[5],
              !.quality_weight = w[6]]

BaseCandidate ==
    [skills |-> Some(<<str_revit>>), tools |-> Some(<<str_navisworks>>),
     experience |-> Some(<<"entry">>), portfolio_urls |-> None,
     raw_text |-> Some(str_Senior_BIM_Manager),
     email |-> Some(str_contact), phone |-> Some(str_contact),
     ocr_quality_score |-> Some(80)]

BaseJob ==
    [must_have_skills |-> <<str_revit>>, nice_to_have_skills |-> Some(<<>>),
     required_tools |-> Some(<<str_navisworks>>),
     role_keywords |-> Some(<<str_BIM_Manager>>),
     skill_weight |-> 40, role_weight |-> 20, tool_weight |-> 15,
     experience_weight |-> 15, portfolio_weight |-> 10, quality_weight |-> 5]

\* The (candidate, job) pairs scored: each family varies the fields one
\* group of category functions reads and keeps the others at the base.
SkillPairs ==
    { << [BaseCandidate EXCEPT !.skills = s],
         [BaseJob EXCEPT !.must_have_skills = m, !.nice_to_have_skills = n] >> :
        s \in OptLists(CandidateSkillNames, MaxListLen),
        m \in Lists(JobSkillNames, MaxListLen),
        n \in OptLists(JobSkillNames, MaxListLen - 1) }

ToolPairs ==
    { << [BaseCandidate EXCEPT !.tools = t],
         [BaseJob EXCEPT !.required_tools = r] >> :
        t \in OptLists(CandidateToolNames, MaxListLen),
        r \in OptLists(JobToolNames, MaxListLen) }

TextPairs ==
    { << [BaseCandidate EXCEPT !.raw_text = x, !.portfolio_urls = p],
         [BaseJob EXCEPT !.role_keywords = k, !.must_have_skills = m] >> :
        x \in RawTexts, p \in EntryLists,
        k \in OptLists(RoleKeywords, MaxListLen),
        m \in {<<>>, <<str_revit, str_autocad>>} }

ProfilePairs ==
    { << [BaseCandidate EXCEPT !.experience = e, !.email = em, !.phone = ph,
                               !.ocr_quality_score = q],
         BaseJob >> :
        e \in EntryLists, em \in Contacts, ph \in Contacts, q \in OcrScores }

\* Candidates with almost nothing extracted, against jobs that ask for little
SparsePairs ==
    { << [BaseCandidate EXCEPT !.skills = None, !.tools = None,
                               !.raw_text = None, !.email = None,
                               !.phone = None, !.experience = e,
                               !.portfolio_urls = u, !.ocr_quality_score = q],
         [BaseJob EXCEPT !.must_have_skills = m, !.nice_to_have_skills = None,
                         !.required_tools = None, !.role_keywords = k] >> :
        e \in EntryLists, u \in EntryLists, q \in OcrScores,
        m \in {<<>>, <<str_revit>>},
        k \in {None, Some(<<str_BIM_Manager>>)} }

InputPairs ==
    { <<p[1], WithWeights(p[2], w)>> :
        p \in SkillPairs \cup ToolPairs \cup TextPairs \cup ProfilePairs
                \cup SparsePairs,
        w \in WeightVectors }

----------------------------------------------------------------------------
(* Idle values of the variables a specification does not use *)

IdleScore == /\ candidate = BaseCandidate
             /\ jd = BaseJob
             /\ hashSeed = "h1"
             /\ result = NoMatchResult("none")
             /\ prevResult = NoMatchResult("none")
IdleJD    == /\ jobs = <<>>
             /\ lastRequest = <<>>
IdleParse == /\ cvLines = <<>>
             /\ termDict = <<>>
             /\ pyBuild = "py311"
             /\ extracted = <<>>
             /\ parsed = <<>>
IdleGemini == /\ geminiEnabled = FALSE
              /\ apiCall = <<>>
              /\ lastResponse = <<>>
              /\ sections = <<>>
IdleEval  == /\ profile = <<>>
             /\ clock = <<>>
             /\ metrics = <<>>
IdleUpload == batch = <<>>
IdleExt   == IdleParse /\ IdleGemini /\ IdleEval /\ IdleUpload
IdleMatch == /\ candidates = <<>>
             /\ matchResults = <<>>
             /\ tasks = <<>>
             /\ runLog = <<>>
             /\ session = <<>>

----------------------------------------------------------------------------
(* Scoring: one worker process scoring one (candidate, job) pair *)

Init ==
    /\ \E p \in InputPairs : candidate = p[1] /\ jd = p[2]
    /\ hashSeed \in HashSeeds
    /\ result = NoMatchResult("none")
    /\ prevResult = NoMatchResult("none")
    /\ IdleJD /\ IdleMatch /\ IdleExt

\* A call that lower-cases the candidate's skill list in place while scoring
MatchCandidate_NormalisesInPlace ==
    /\ result' = match_candidate(candidate, jd, hashSeed)
    /\ prevResult' = result
    /\ candidate' = [candidate EXCEPT
                        !.skills = IF candidate.skills = None THEN None
                                   ELSE Some(LowerAll(candidate.skills[1]))]
    /\ UNCHANGED <<jd, hashSeed>>
    /\ UNCHANGED <<jdVars, matchVars, extVars>>

\* matcher.match_candidate(candidate, jd, db), as run_matching_task calls it
MatchCandidate ==
    /\ result' = match_candidate(candidate, jd, hashSeed)
    /\ prevResult' = result
    /\ UNCHANGED <<candidate, jd, hashSeed>>
    /\ UNCHANGED <<jdVars, matchVars, extVars>>

\* The server process is restarted (or another worker process takes the
\* next request): the new interpreter has its own string-hash seed.
RestartProcess ==
    /\ hashSeed' \in HashSeeds \ {hashSeed}
    /\ UNCHANGED <<candidate, jd, result, prevResult>>
    /\ UNCHANGED <<jdVars, matchVars, extVars>>

Next == MatchCandidate \/ RestartProcess

Spec == Init /\ [][Next]_vars

----------------------------------------------------------------------------
(* Job description endpoints: app/api/job_description.py with the request *)
(* schemas of app/schemas/job_description.py                               *)

MaxJobs == 2    \* most job descriptions created

WeightFields == <<"skill_weight", "role_weight", "tool_weight",
                  "experience_weight", "portfolio_weight", "quality_weight">>

\* A field of a request body: left out, given as JSON null, or given a value
Unset      == [kind |-> "unset", value |-> 0]
Null       == [kind |-> "null",  value |-> 0]
Given(v)   == [kind |-> "value", value |-> v]

\* Field(default, ge=0, le=100) of the six weights, in the order of the class
FieldDefault == [f \in Range(WeightFields) |->
                    DefaultWeights[CHOOSE i \in 1..6 : WeightFields[i] = f]]

\* The request bodies sent to POST /jd (title and description are valid)
CreateRequests ==
    [ skill_weight      : {Unset, Given(50), Given(100), Given(101)},
      role_weight       : {Unset, Given(0)},
      tool_weight       : {Unset, Given(0)},
      experience_weight : {Unset, Given(0)},
      portfolio_weight  : {Unset, Given(0)},
      quality_weight    : {Unset, Null, Given(0), Given(50), Given(101)} ]

\* The request bodies sent to PUT /jd/{jd_id}: title is a field of
\* JobDescriptionUpdate, skill_weight is not
UpdateRequests ==
    [ title        : {Unset, Null, Given(2)},
      skill_weight : {Unset, Given(50)} ]

\* Field(..., ge=0, le=100): the constraint of one weight field
FieldInRange(v) == v >= 0 /\ v <= 100

\* What validation leaves in `values` for field f when a later validator
\* reads values.get(f, 0): the default of a field left out, the value of a
\* field that validated, nothing (so 0) for a field that failed.
ValidatedValue(req, f) ==
    IF req[f].kind = "unset" THEN FieldDefault[f]
    ELSE IF req[f].kind = "value" /\ FieldInRange(req[f].value) THEN req[f].value
    ELSE 0

\* JobDescriptionCreate.validate_total_weights: a validator of quality_weight,
\* declared without always=True, so it runs only when the request gives
\* quality_weight (and the value passed the field's own constraints).
validate_total_weights_runs(req) ==
    req["quality_weight"].kind = "value" /\ FieldInRange(req["quality_weight"].value)

validate_total_weights_fails(req) ==
    LET total == ValidatedValue(req, "skill_weight")
               + ValidatedValue(req, "role_weight")
               + ValidatedValue(req, "tool_weight")
               + ValidatedValue(req, "experience_weight")
               + ValidatedValue(req, "portfolio_weight")
               + req["quality_weight"].value
    IN  total # 100

\* Outcome of parsing a POST /jd body as JobDescriptionCreate:
\* 500 when a validator meets None (None < 0 raises TypeError),
\* 422 when a field constraint or a validator rejects, else 201.
JobDescriptionCreate(req) ==
    IF \E f \in Range(WeightFields) : req[f].kind = "null" THEN 500
    ELSE IF \E f \in Range(WeightFields) :
                req[f].kind = "value" /\ ~FieldInRange(req[f].value) THEN 422
    ELSE IF validate_total_weights_runs(req) /\ validate_total_weights_fails(req)
         THEN 422
    ELSE 201

\* The row create_job_description adds
NewJobRow(req) ==
    [title |-> 1,
     skill_weight      |-> ValidatedValue(req, "skill_weight"),
     role_weight       |-> ValidatedValue(req, "role_weight"),
     tool_weight       |-> ValidatedValue(req, "tool_weight"),
     experience_weight |-> ValidatedValue(req, "experience_weight"),
     portfolio_weight  |-> ValidatedValue(req, "portfolio_weight"),
     quality_weight    |-> ValidatedValue(req, "quality_weight")]

\* POST /jd
create_job_description(req) ==
    /\ Len(jobs) < MaxJobs
    /\ LET status == JobDescriptionCreate(req)
       IN  /\ jobs' = IF status = 201 THEN Append(jobs, NewJobRow(req)) ELSE jobs
           /\ lastRequest' = <<"POST", status>>
    /\ UNCHANGED <<scoreVars, matchVars, extVars>>

\* PUT /jd/{jd_id}: update_data = jd_update.dict(exclude_unset=True) holds
\* only fields of JobDescriptionUpdate, so a weight in the body is dropped;
\* title = null is set on the row and the commit fails on the NOT NULL column.
update_job_description(jd_id, req) ==
    /\ LET status == IF jd_id \notin DOMAIN jobs THEN 404
                     ELSE IF req.title.kind = "null" THEN 500
                     ELSE 200
       IN  /\ jobs' = IF status = 200 /\ req.title.kind = "value"
                      THEN [jobs EXCEPT ![jd_id].title = req.title.value]
                      ELSE jobs
           /\ lastRequest' = <<"PUT", status>>
    /\ UNCHANGED <<scoreVars, matchVars, extVars>>

JDInit ==
    /\ jobs = <<>>
    /\ lastRequest = <<>>
    /\ IdleScore /\ IdleMatch /\ IdleExt

JDNext ==
    \/ \E req \in CreateRequests : create_job_description(req)
    \/ \E jd_id \in 1..MaxJobs, req \in UpdateRequests :
          update_job_description(jd_id, req)

JDSpec == JDInit /\ [][JDNext]_vars

----------------------------------------------------------------------------
(* Background matching: POST /jd/{jd_id}/match and run_matching_task       *)
(* (app/api/matching.py).  A sync background task runs in the server's     *)
(* thread pool, so the executions started by two requests run              *)
(* concurrently; each database statement is one step.                      *)

NumCandidates == 2   \* rows of the candidates table
MaxTasks      == 2   \* run_matching_task executions that can be in progress

CandidateIds == 1..NumCandidates
TaskIds      == 1..MaxTasks
JobIds       == {"jd1", "jd2"}
BatchIds     == {"batchA", "batchB"}
NoBatch      == "none"       \* batch_id = None: match all candidates

\* A match_results row; is_shortlisted and is_rejected take their column
\* defaults when run_matching_task adds the row
MatchRow(candidate_id, jd_id) ==
    [candidate_id |-> candidate_id, jd_id |-> jd_id,
     is_shortlisted |-> FALSE, is_rejected |-> FALSE]

MatchRows == [candidate_id : CandidateIds, jd_id : JobIds,
              is_shortlisted : BOOLEAN, is_rejected : BOOLEAN]

\* Number of rows of the table for a (candidate, job) pair
ResultCount(table, candidate_id, jd_id) ==
    LET rows == {r \in MatchRows : r.candidate_id = candidate_id /\ r.jd_id = jd_id}
        RECURSIVE Sum(_)
        Sum(S) == IF S = {} THEN 0
                  ELSE LET r == CHOOSE x \in S : TRUE
                       IN  table[r] + Sum(S \ {r})
    IN  Sum(rows)

\* For one job: candidate_id -> number of result rows
ResultsOfJob(table, jd_id) ==
    [c \in CandidateIds |-> ResultCount(table, c, jd_id)]

IdleTask == [pc |-> "idle", jd_id |-> "jd1", batch_id |-> NoBatch, todo |-> <<>>]

\* db = SessionLocal(): a session with no failed transaction; failed is the
\* set of candidates the run logged because their own scoring or storing
\* raised
NewSession == [active |-> TRUE, failed |-> {}]

\* candidates = query.all(): the completed candidates, of the batch when one
\* is given, in primary-key order
RECURSIVE SelectCandidates(_, _, _)
SelectCandidates(table, batch_id, from) ==
    IF from > NumCandidates THEN <<>>
    ELSE (IF /\ table[from].extraction_status = "completed"
             /\ (batch_id = NoBatch \/ table[from].batch_id = batch_id)
          THEN <<from>> ELSE <<>>)
         \o SelectCandidates(table, batch_id, from + 1)

\* Mutant: the prior results are left in place
DeleteExisting_Nothing(table, jd_id, batch_id, candidate_ids) == table

\* Mutant: a batch-scoped run deletes the results of the whole job
DeleteExisting_WholeJob(table, jd_id, batch_id, candidate_ids) ==
    [r \in MatchRows |-> IF r.jd_id = jd_id THEN 0 ELSE table[r]]

\* Mutant: results that carry a decision are kept
DeleteExisting_KeepDecided(table, jd_id, batch_id, candidate_ids) ==
    [r \in MatchRows |->
        IF /\ r.jd_id = jd_id
           /\ (batch_id = NoBatch \/ r.candidate_id \in Range(candidate_ids))
           /\ ~r.is_shortlisted /\ ~r.is_rejected
        THEN 0 ELSE table[r]]

\* existing_matches.delete(): the rows of the job, restricted to the
\* candidates just read when a batch is given
DeleteExisting(table, jd_id, batch_id, candidate_ids) ==
    [r \in MatchRows |->
        IF /\ r.jd_id = jd_id
           /\ (batch_id = NoBatch \/ r.candidate_id \in Range(candidate_ids))
        THEN 0 ELSE table[r]]

\* POST /jd/{jd_id}/match: the job exists, the task is queued
match_candidates_to_jd(t, jd_id, batch_id) ==
    /\ tasks[t].pc = "idle"
    /\ tasks' = [tasks EXCEPT ![t] = [pc |-> "queued", jd_id |-> jd_id,
                                      batch_id |-> batch_id, todo |-> <<>>]]
    /\ UNCHANGED <<candidates, matchResults, runLog, session>>
    /\ UNCHANGED <<scoreVars, jdVars, extVars>>

\* run_matching_task, lines 270-282: read the job and the candidates
ReadCandidates(t) ==
    /\ tasks[t].pc = "queued"
    /\ tasks' = [tasks EXCEPT
                    ![t].pc = "delete",
                    ![t].todo = SelectCandidates(candidates, tasks[t].batch_id, 1)]
    /\ UNCHANGED <<candidates, matchResults, runLog, session>>
    /\ UNCHANGED <<scoreVars, jdVars, extVars>>

\* run_matching_task, lines 284-293: delete the existing results and commit
DeletePrior(t) ==
    /\ tasks[t].pc = "delete"
    /\ matchResults' = DeleteExisting(matchResults, tasks[t].jd_id,
                                      tasks[t].batch_id, tasks[t].todo)
    /\ tasks' = [tasks EXCEPT ![t].pc = "insert"]
    /\ UNCHANGED <<candidates, runLog, session>>
    /\ UNCHANGED <<scoreVars, jdVars, extVars>>

\* run_matching_task, lines 297-301: score the next candidate, add the
\* result and commit
InsertNext(t) ==
    /\ tasks[t].pc = "insert"
    /\ tasks[t].todo # <<>>
    /\ LET row == MatchRow(Head(tasks[t].todo), tasks[t].jd_id)
       IN  matchResults' = [matchResults EXCEPT ![row] = @ + 1]
    /\ tasks' = [tasks EXCEPT ![t].todo = Tail(@)]
    /\ UNCHANGED <<candidates, runLog, session>>
    /\ UNCHANGED <<scoreVars, jdVars, extVars>>

\* The run is over (db.close()); the next run opens a session of its own
FinishTask(t) ==
    /\ tasks[t].pc = "insert"
    /\ tasks[t].todo = <<>>
    /\ tasks' = [tasks EXCEPT ![t] = IdleTask]
    /\ session' = [session EXCEPT ![t] = NewSession]
    /\ UNCHANGED <<candidates, matchResults>>
    /\ UNCHANGED <<scoreVars, jdVars, extVars>>

\* History of the finished runs, kept where one run follows another: for the
\* latest finished run its job and scope, the job's results at that moment
\* and, when the run finished before it had the same job and scope, the
\* job's results at that earlier moment.
LogRun(t) ==
    runLog' =
        <<[jd_id |-> tasks[t].jd_id, batch_id |-> tasks[t].batch_id,
           results |-> ResultsOfJob(matchResults, tasks[t].jd_id),
           previous |->
               IF /\ runLog # <<>>
                  /\ runLog[1].jd_id = tasks[t].jd_id
                  /\ runLog[1].batch_id = tasks[t].batch_id
               THEN Some(runLog[1].results) ELSE None]>>

MatchInit ==
    /\ candidates \in [CandidateIds ->
                          [batch_id : BatchIds,
                           extraction_status : {"completed", "failed"}]]
    /\ matchResults = [r \in MatchRows |-> 0]
    /\ tasks = [t \in TaskIds |-> IdleTask]
    /\ runLog = <<>>
    /\ session = [t \in TaskIds |-> NewSession]
    /\ IdleScore /\ IdleJD /\ IdleExt

NoTaskRunning == \A t \in TaskIds : tasks[t].pc = "idle"

\* Requests arrive at any time: the executions interleave
MatchNext ==
    \E t \in TaskIds :
        \/ \E jd_id \in JobIds, batch_id \in BatchIds \cup {NoBatch} :
              match_candidates_to_jd(t, jd_id, batch_id)
        \/ ReadCandidates(t)
        \/ DeletePrior(t)
        \/ InsertNext(t)
        \/ FinishTask(t) /\ UNCHANGED runLog

MatchSpec == MatchInit /\ [][MatchNext]_vars

\* A request arrives only after the previous run has finished
RerunNext ==
    \E t \in TaskIds :
        \/ \E jd_id \in JobIds, batch_id \in BatchIds \cup {NoBatch} :
              NoTaskRunning /\ match_candidates_to_jd(t, jd_id, batch_id)
        \/ ReadCandidates(t)
        \/ DeletePrior(t)
        \/ InsertNext(t)
        \/ FinishTask(t) /\ LogRun(t)

RerunSpec == MatchInit /\ [][RerunNext]_vars

----------------------------------------------------------------------------
(* run_matching_task with failing candidates (app/api/matching.py:295-307) *)
(* and DELETE /batch/{batch_id} (app/api/batch.py) running beside it.      *)
(* Scoring a candidate (which loads its expired attributes) and storing    *)
(* the result (db.add, db.commit) are separate database steps.             *)

\* A candidates row that DELETE /batch/{batch_id} has removed from the table
DeletedRow(row) == [row EXCEPT !.extraction_status = "deleted"]

\* The loop moves to the next candidate without storing a result:
\* `except Exception: print(...); continue` (no db.rollback())
SkipCandidate(t, own_failure, session_active) ==
    /\ tasks' = [tasks EXCEPT ![t].todo = Tail(@), ![t].pc = "insert"]
    /\ session' = [session EXCEPT
                      ![t].active = session_active,
                      ![t].failed = IF own_failure
                                    THEN @ \cup {Head(tasks[t].todo)} ELSE @]
    /\ UNCHANGED <<candidates, matchResults, runLog>>
    /\ UNCHANGED <<scoreVars, jdVars, extVars>>

\* result = matcher.match_candidate(candidate, jd, db).  The attributes of
\* the candidate were expired by the last commit, so the call first reloads
\* them through the session: a session whose flush failed and was not
\* rolled back raises PendingRollbackError, a row that is gone raises
\* ObjectDeletedError; then the scoring itself raises TypeError on a null
\* ocr_quality_score.
ScoreNext(t) ==
    /\ tasks[t].pc = "insert"
    /\ tasks[t].todo # <<>>
    /\ LET row == candidates[Head(tasks[t].todo)]
       IN  IF ~session[t].active
           THEN SkipCandidate(t, FALSE, FALSE)
           ELSE IF \/ row.extraction_status = "deleted"
                   \/ OcrComparisonRaises([ocr_quality |-> row.ocr_quality_score])
                THEN SkipCandidate(t, TRUE, TRUE)
                ELSE /\ tasks' = [tasks EXCEPT ![t].pc = "store"]
                     /\ UNCHANGED <<candidates, matchResults, runLog, session>>
                     /\ UNCHANGED <<scoreVars, jdVars, extVars>>

\* db.add(result); db.commit().  The INSERT violates the foreign key when
\* the candidate row was deleted after it was scored: the flush fails, the
\* transaction is rolled back and the session refuses further work until
\* rollback() is called.
StoreNext(t) ==
    /\ tasks[t].pc = "store"
    /\ LET c == Head(tasks[t].todo)
       IN  IF candidates[c].extraction_status = "deleted"
           THEN SkipCandidate(t, TRUE, FALSE)
           ELSE /\ matchResults' =
                      [matchResults EXCEPT ![MatchRow(c, tasks[t].jd_id)] = @ + 1]
                /\ tasks' = [tasks EXCEPT ![t].todo = Tail(@), ![t].pc = "insert"]
                /\ UNCHANGED <<candidates, runLog, session>>
                /\ UNCHANGED <<scoreVars, jdVars, extVars>>

\* DELETE /batch/{batch_id}: the batch, its candidates and (by cascade)
\* their match results are deleted
delete_batch(batch_id) ==
    /\ \E c \in CandidateIds :
          /\ candidates[c].batch_id = batch_id
          /\ candidates[c].extraction_status # "deleted"
    /\ candidates' = [c \in CandidateIds |->
                         IF candidates[c].batch_id = batch_id
                         THEN DeletedRow(candidates[c]) ELSE candidates[c]]
    /\ matchResults' = [r \in MatchRows |->
                           IF candidates[r.candidate_id].batch_id = batch_id
                           THEN 0 ELSE matchResults[r]]
    /\ UNCHANGED <<tasks, runLog, session>>
    /\ UNCHANGED <<scoreVars, jdVars, extVars>>

IsolationInit ==
    /\ candidates \in [CandidateIds ->
                          [batch_id : BatchIds,
                           extraction_status : {"completed", "failed"},
                           ocr_quality_score : {None, Some(80)}]]
    /\ matchResults = [r \in MatchRows |-> 0]
    /\ tasks = [t \in TaskIds |-> IdleTask]
    /\ runLog = <<>>
    /\ session = [t \in TaskIds |-> NewSession]
    /\ IdleScore /\ IdleJD /\ IdleExt

\* One matching run at a time, batches deleted at any moment
IsolationNext ==
    \/ \E t \in TaskIds :
          \/ \E jd_id \in JobIds, batch_id \in BatchIds \cup {NoBatch} :
                NoTaskRunning /\ match_candidates_to_jd(t, jd_id, batch_id)
          \/ ReadCandidates(t)
          \/ DeletePrior(t)
          \/ ScoreNext(t)
          \/ StoreNext(t)
          \/ FinishTask(t) /\ UNCHANGED runLog
    \/ \E batch_id \in BatchIds : delete_batch(batch_id)

IsolationSpec == IsolationInit /\ [][IsolationNext]_vars
----------------------------------------------------------------------------
(* Shortlist and reject decisions (app/api/matching.py:215-260) made on    *)
(* the results of matching runs that follow one another                    *)

\* The rows the UPDATE of a decision selects: those of the job in the path
\* whose match_id the request names.  ids gives the rows named, whatever job
\* they belong to.
Decided(table, jd_id, ids) == {r \in ids : r.jd_id = jd_id /\ table[r] > 0}

\* A row with one of its two flags set
WithFlag(r, flag) == [r EXCEPT ![flag] = TRUE]
Shortlisted(r) == WithFlag(r, "is_shortlisted")
Rejected(r) == WithFlag(r, "is_rejected")

\* .update({MatchResult.<flag>: True}): the selected rows carry the flag
\* afterwards, all other columns and all other rows stay as they are
SetFlag(table, rows, flag) ==
    [q \in MatchRows |->
        IF q \in rows /\ WithFlag(q, flag) # q THEN 0
        ELSE IF \E r \in rows : WithFlag(r, flag) = q /\ r # q
             THEN table[q] + table[CHOOSE r \in rows : WithFlag(r, flag) = q /\ r # q]
             ELSE table[q]]

\* The (candidate, job) pairs of the results a decision was stored on, kept
\* in runLog for the statements about what a later run does to them
DecidedPairs == IF runLog = <<>> THEN {} ELSE runLog[1]

LogDecisions(rows) ==
    runLog' = <<DecidedPairs \cup {<<r.candidate_id, r.jd_id>> : r \in rows}>>

\* POST /jd/{jd_id}/shortlist
shortlist_candidates(jd_id, ids) ==
    /\ matchResults' = SetFlag(matchResults, Decided(matchResults, jd_id, ids), "is_shortlisted")
    /\ LogDecisions(Decided(matchResults, jd_id, ids))
    /\ UNCHANGED <<candidates, tasks, session>>
    /\ UNCHANGED <<scoreVars, jdVars, extVars>>

\* POST /jd/{jd_id}/reject
reject_candidates(jd_id, ids) ==
    /\ matchResults' = SetFlag(matchResults, Decided(matchResults, jd_id, ids), "is_rejected")
    /\ LogDecisions(Decided(matchResults, jd_id, ids))
    /\ UNCHANGED <<candidates, tasks, session>>
    /\ UNCHANGED <<scoreVars, jdVars, extVars>>

\* The requests a reviewer sends: the match_id of one stored result, or
\* those of all stored results, the results of other jobs among them
StoredRows == {r \in MatchRows : matchResults[r] > 0}
DecisionRequests == {{r} : r \in StoredRows} \cup {StoredRows}

\* One matching run at a time; decisions are made at any moment
ReviewNext ==
    \/ \E t \in TaskIds :
          \/ \E jd_id \in JobIds, batch_id \in BatchIds \cup {NoBatch} :
                NoTaskRunning /\ match_candidates_to_jd(t, jd_id, batch_id)
          \/ ReadCandidates(t)
          \/ DeletePrior(t)
          \/ InsertNext(t)
          \/ FinishTask(t) /\ UNCHANGED runLog
    \/ \E jd_id \in JobIds, ids \in DecisionRequests :
          \/ shortlist_candidates(jd_id, ids)
          \/ reject_candidates(jd_id, ids)

ReviewSpec == MatchInit /\ [][ReviewNext]_vars

----------------------------------------------------------------------------
(* Dictionary matching of skills and tools:                                *)
(* ATSParser._extract_skills / _extract_tools (app/services/ats_parser.py) *)
(* and DataExtractor._extract_skills / _extract_tools                      *)
(* (app/services/data_extractor.py), with the dictionaries of              *)
(* app/services/dictionaries.py.                                           *)

get_skills_dict ==
    << <<"p","y","t","h","o","n">>,
       <<"j","a","v","a">>,
       <<"j","a","v","a","s","c","r","i","p","t">>,
       <<"t","y","p","e","s","c","r","i","p","t">>,
       <<"c","+","+">>,
       <<"c","#">>,
       <<"p","h","p">>,
       <<"r","u","b","y">>,
       <<"g","o">>,
       <<"r","u","s","t">>,
       <<"h","t","m","l">>,
       <<"c","s","s">>,
       <<"r","e","a","c","t">>,
       <<"v","u","e">>,
       <<"a","n","g","u","l","a","r">>,
       <<"n","o","d","e",".","j","s">>,
       <<"d","j","a","n","g","o">>,
       <<"f","l","a","s","k">>,
       <<"f","a","s","t","a","p","i">>,
       <<"n","e","x","t",".","j","s">>,
       <<"e","x","p","r","e","s","s">>,
       <<"s","p","r","i","n","g">>,
       <<"a","s","p",".","n","e","t">>,
       <<"b","i","m">>,
       <<"r","e","v","i","t">>,
       <<"a","u","t","o","c","a","d">>,
       <<"n","a","v","i","s","w","o","r","k","s">>,
       <<"3","d","s"," ","m","a","x">>,
       <<"s","k","e","t","c","h","u","p">>,
       <<"r","h","i","n","o","c","e","r","o","s">>,
       <<"a","r","c","h","i","c","a","d">>,
       <<"c","i","v","i","l"," ","3","d">>,
       <<"i","n","f","r","a","w","o","r","k","s">>,
       <<"l","u","m","i","o","n">>,
       <<"e","n","s","c","a","p","e">>,
       <<"p","r","o","j","e","c","t"," ","m","a","n","a","g","e","m","e","n","t">>,
       <<"a","g","i","l","e">>,
       <<"s","c","r","u","m">>,
       <<"k","a","n","b","a","n">>,
       <<"j","i","r","a">>,
       <<"a","s","a","n","a">>,
       <<"t","r","e","l","l","o">>,
       <<"s","q","l">>,
       <<"p","o","s","t","g","r","e","s","q","l">>,
       <<"m","y","s","q","l">>,
       <<"m","o","n","g","o","d","b">>,
       <<"r","e","d","i","s">>,
       <<"e","l","a","s","t","i","c","s","e","a","r","c","h">>,
       <<"d","a","t","a"," ","a","n","a","l","y","s","i","s">>,
       <<"m","a","c","h","i","n","e"," ","l","e","a","r","n","i","n","g">>,
       <<"d","e","e","p"," ","l","e","a","r","n","i","n","g">>,
       <<"t","e","n","s","o","r","f","l","o","w">>,
       <<"p","y","t","o","r","c","h">>,
       <<"a","w","s">>,
       <<"a","z","u","r","e">>,
       <<"g","c","p">>,
       <<"d","o","c","k","e","r">>,
       <<"k","u","b","e","r","n","e","t","e","s">>,
       <<"t","e","r","r","a","f","o","r","m">>,
       <<"j","e","n","k","i","n","s">>,
       <<"g","i","t","l","a","b"," ","c","i">>,
       <<"p","h","o","t","o","s","h","o","p">>,
       <<"i","l","l","u","s","t","r","a","t","o","r">>,
       <<"f","i","g","m","a">>,
       <<"s","k","e","t","c","h">>,
       <<"a","d","o","b","e"," ","x","d">>,
       <<"i","n","d","e","s","i","g","n">>,
       <<"m","i","c","r","o","s","o","f","t"," ","o","f","f","i","c","e">>,
       <<"e","x","c","e","l">>,
       <<"p","o","w","e","r","p","o","i","n","t">>,
       <<"w","o","r","d">>,
       <<"g","o","o","g","l","e"," ","w","o","r","k","s","p","a","c","e">>,
       <<"c","o","m","m","u","n","i","c","a","t","i","o","n">>,
       <<"l","e","a","d","e","r","s","h","i","p">>,
       <<"t","e","a","m","w","o","r","k">>,
       <<"p","r","o","b","l","e","m"," ","s","o","l","v","i","n","g">> >>

get_tools_dict ==
    << <<"r","e","v","i","t">>,
       <<"a","u","t","o","c","a","d">>,
       <<"n","a","v","i","s","w","o","r","k","s">>,
       <<"b","i","m"," ","3","6","0">>,
       <<"a","u","t","o","d","e","s","k"," ","c","o","n","s","t","r","u","c","t","i","o","n"," ","c","l","o","u","d">>,
       <<"c","i","v","i","l"," ","3","d">>,
       <<"s","k","e","t","c","h","u","p">>,
       <<"a","r","c","h","i","c","a","d">>,
       <<"r","h","i","n","o","c","e","r","o","s">>,
       <<"g","r","a","s","s","h","o","p","p","e","r">>,
       <<"d","y","n","a","m","o">>,
       <<"l","u","m","i","o","n">>,
       <<"e","n","s","c","a","p","e">>,
       <<"v","-","r","a","y">>,
       <<"3","d","s"," ","m","a","x">>,
       <<"b","l","e","n","d","e","r">>,
       <<"p","r","o","c","o","r","e">>,
       <<"p","l","a","n","g","r","i","d">>,
       <<"p","r","i","m","a","v","e","r","a">>,
       <<"m","s"," ","p","r","o","j","e","c","t">>,
       <<"m","i","c","r","o","s","o","f","t"," ","o","f","f","i","c","e">>,
       <<"a","d","o","b","e"," ","c","r","e","a","t","i","v","e"," ","s","u","i","t","e">>,
       <<"p","h","o","t","o","s","h","o","p">>,
       <<"i","l","l","u","s","t","r","a","t","o","r">>,
       <<"i","n","d","e","s","i","g","n">> >>

\* \w of the re module (for the characters of the model's alphabet)
IsWordChar(c) ==
    c \in Range(UpperCase) \cup Range(LowerCase) \cup Range(Digits) \cup {"_"}

\* \b before position i of the text (i in 1..Len(text)+1)
WordBoundary(text, i) ==
    (i > 1 /\ IsWordChar(text[i - 1])) # (i <= Len(text) /\ IsWordChar(text[i]))

\* The interpreter the service runs on: the re module reads "++" as a
\* possessive quantifier from Python 3.11 on and rejects it before
PyBuilds == {"py310", "py311"}

\* re.escape(term): every character stands for itself
re_escape(term) ==
    [ok |-> TRUE,
     items |-> [i \in DOMAIN term |-> [kind |-> "char", ch |-> term[i]]]]

\* The pattern the re module compiles from a dictionary term put into the
\* pattern as it is (from position i on): "." is any character, "+" repeats
\* the item before it, "++" repeats it possessively (py311) or is an error
\* "multiple repeat" (py310), a "+" with nothing before it is an error; the
\* other characters of the dictionaries stand for themselves.
RECURSIVE sre_parse(_, _, _)
sre_parse(term, i, build) ==
    IF i > Len(term) THEN [ok |-> TRUE, items |-> <<>>]
    ELSE IF term[i] = "+" THEN [ok |-> FALSE, items |-> <<>>]
    ELSE LET atom == IF term[i] = "." THEN "any" ELSE "char"
             plus == i + 1 <= Len(term) /\ term[i + 1] = "+"
             plusplus == plus /\ i + 2 <= Len(term) /\ term[i + 2] = "+"
             kind == IF plusplus THEN "possessive_" \o atom
                     ELSE IF plus THEN "greedy_" \o atom ELSE atom
             rest == sre_parse(term, i + (IF plusplus THEN 3 ELSE IF plus THEN 2 ELSE 1),
                               build)
         IN  IF plusplus /\ build = "py310" THEN [ok |-> FALSE, items |-> <<>>]
             ELSE [ok |-> rest.ok,
                   items |-> <<[kind |-> kind, ch |-> term[i]]>> \o rest.items]

\* One item of a pattern matches the character at position p
ItemMatches(item, text, p) ==
    /\ p <= Len(text)
    /\ IF item.kind \in {"any", "greedy_any", "possessive_any"}
       THEN text[p] # "\n"
       ELSE text[p] = item.ch

\* Length of the longest run of characters from p on that the item matches
RECURSIVE RunLength(_, _, _)
RunLength(item, text, p) ==
    IF ItemMatches(item, text, p) THEN 1 + RunLength(item, text, p + 1) ELSE 0

\* The positions right after a match of items[k..] that starts at p
RECURSIVE MatchEnds(_, _, _, _)
MatchEnds(items, k, text, p) ==
    IF k > Len(items) THEN {p}
    ELSE LET item == items[k]
             run == RunLength(item, text, p)
         IN  IF item.kind \in {"char", "any"}
             THEN IF run >= 1 THEN MatchEnds(items, k + 1, text, p + 1) ELSE {}
             ELSE IF item.kind \in {"possessive_char", "possessive_any"}
             THEN IF run >= 1 THEN MatchEnds(items, k + 1, text, p + run) ELSE {}
             ELSE UNION { MatchEnds(items, k + 1, text, p + n) : n \in 1..run }

\* re.search(r"\b" + pattern + r"\b", text) finds a match
re_search_word(items, text) ==
    \E p \in 1..(Len(text) + 1) :
        /\ WordBoundary(text, p)
        /\ \E e \in MatchEnds(items, 1, text, p) : WordBoundary(text, e)

\* The terms of a dictionary found in the text; "raised" when a pattern
\* does not compile.  escape tells whether the term goes through
\* re.escape (DataExtractor) or into the pattern as it is (ATSParser).
MatchDictionary(dict, text, escape, build, seed) ==
    LET pattern(term) == IF escape THEN re_escape(term)
                         ELSE sre_parse(term, 1, build)
        found(terms, tl) == {i \in DOMAIN terms :
                               pattern(terms[i]).ok /\ re_search_word(pattern(terms[i]).items, tl)}
    IN  TheOne({IF \E i \in DOMAIN v.terms : ~pattern(v.terms[i]).ok
                THEN [status |-> "raised", terms |-> <<>>]
                ELSE [status |-> "returned",
                      terms |-> SetToList({v.terms[i] : i \in found(v.terms, v.tl)}, seed)] :
                   v \in {[terms |-> dict, tl |-> Lower(text)]}})

\* ATSParser._extract_skills(text) with self.skills_dict = dict
ATS_extract_terms(dict, text, build, seed) ==
    MatchDictionary(LowerAll(dict), text, FALSE, build, seed)

\* DataExtractor._extract_skills(text) with self.skills_dict = dict
DataExtractor_extract_terms(dict, text, build, seed) ==
    MatchDictionary(LowerAll(dict), text, TRUE, build, seed)

----------------------------------------------------------------------------
(* The CV text.  A text is a sequence of lines and a line a sequence of    *)
(* words (a blank line has none); the str the code works on has one space  *)
(* between the words of a line and "\n" between the lines.                 *)

RECURSIVE JoinWith(_, _)
JoinWith(parts, sep) ==
    IF Len(parts) = 0 THEN <<>>
    ELSE IF Len(parts) = 1 THEN parts[1]
    ELSE parts[1] \o sep \o JoinWith(Tail(parts), sep)

\* The str of a line and of a text
LineStr(line) == JoinWith(line, <<" ">>)
TextStr(lines) == JoinWith([i \in DOMAIN lines |-> LineStr(lines[i])], <<"\n">>)

text_javascript == << <<<<"j","a","v","a","s","c","r","i","p","t">>>> >>
text_Tekla_Structures == << <<<<"T","e","k","l","a">>, <<"S","t","r","u","c","t","u","r","e","s">>>> >>
text_Cpp_developer == << <<<<"C","+","+">>, <<"d","e","v","e","l","o","p","e","r">>>> >>
text_Csharp_developer == << <<<<"C","#">>, <<"d","e","v","e","l","o","p","e","r">>>> >>
text_grade_c == << <<<<"g","r","a","d","e">>, <<"c">>>> >>
text_node_js == << <<<<"n","o","d","e">>, <<"j","s">>>> >>
text_Node_js_and_Java == << <<<<"N","o","d","e",".","j","s">>, <<"a","n","d">>, <<"J","a","v","a">>>> >>
text_empty == << >>
text_Revit_Autocad == << <<<<"R","e","v","i","t">>>>, <<<<"A","u","t","o","C","A","D">>, <<"R","e","v","i","t">>>> >>

\* The texts the dictionary extraction is run on
MatchTexts == {text_javascript, text_Tekla_Structures, text_Cpp_developer, text_Csharp_developer, text_grade_c, text_node_js, text_Node_js_and_Java, text_empty, text_Revit_Autocad}

Reverse(xs) == [i \in DOMAIN xs |-> xs[Len(xs) + 1 - i]]

\* A dictionary handed to ATSParser(skills_dict=...): mixed case, with a
\* term listed twice
custom_dict == << <<"T","e","k","l","a">>, <<"j","a","v","a">>, <<"t","e","k","l","a">> >>

Dictionaries == {get_skills_dict, Reverse(get_skills_dict), get_tools_dict, custom_dict}

NotExtracted == [by |-> "none", status |-> "none", terms |-> <<>>]

DictInit ==
    /\ cvLines \in MatchTexts
    /\ termDict \in Dictionaries
    /\ pyBuild \in PyBuilds
    /\ hashSeed \in HashSeeds
    /\ extracted = NotExtracted
    /\ parsed = <<>>
    /\ candidate = BaseCandidate /\ jd = BaseJob
    /\ result = NoMatchResult("none") /\ prevResult = NoMatchResult("none")
    /\ IdleJD /\ IdleMatch /\ IdleGemini /\ IdleEval /\ IdleUpload

\* ATSParser(skills_dict=termDict)._extract_skills(text)
ATSExtract ==
    /\ extracted' = [by |-> "ATSParser"] @@
                      ATS_extract_terms(termDict, TextStr(cvLines), pyBuild, hashSeed)
    /\ UNCHANGED <<cvLines, termDict, pyBuild, parsed>>
    /\ UNCHANGED <<scoreVars, jdVars, matchVars, geminiVars, evalVars, uploadVars>>

\* DataExtractor._extract_skills(text), its dictionary being termDict
DataExtract ==
    /\ extracted' = [by |-> "DataExtractor"] @@
                      DataExtractor_extract_terms(termDict, TextStr(cvLines), pyBuild, hashSeed)
    /\ UNCHANGED <<cvLines, termDict, pyBuild, parsed>>
    /\ UNCHANGED <<scoreVars, jdVars, matchVars, geminiVars, evalVars, uploadVars>>

DictNext == ATSExtract \/ DataExtract

DictSpec == DictInit /\ [][DictNext]_vars

----------------------------------------------------------------------------
(* The AI parser: GeminiParser (app/services/gemini_parser.py).            *)
(*                                                                         *)
(* A text that carries JSON (the body of an HTTP response, the text part   *)
(* inside it) is a sequence of tokens, each [k, v, c]: k is the kind, v    *)
(* the spelling of a number, literal or bare word, c the content of a      *)
(* string, itself a sequence of tokens.  White space is not represented.   *)
(* A JSON value is [t, s, a]: t the type, s the spelling of a number or    *)
(* the content of a string, a the members [key, val] of an object or       *)
(* array (the key of an array member is the empty string).                 *)

Tok(k) == [k |-> k, v |-> "", c |-> <<>>]
TOpen == Tok("{")
TClose == Tok("}")
TLBracket == Tok("[")
TRBracket == Tok("]")
TColon == Tok(":")
TComma == Tok(",")
TFence == Tok("fence")
TWord(w) == [k |-> "word", v |-> w, c |-> <<>>]
TNum(n) == [k |-> "num", v |-> n, c |-> <<>>]
TLit(l) == [k |-> "lit", v |-> l, c |-> <<>>]
\* A string whose content is the token sequence c
TStrOf(c) == [k |-> "str", v |-> "", c |-> c]
\* A string of one word
TStr(w) == TStrOf(<<TWord(w)>>)
\* A string cut off before its closing quote
TPartial(w) == [k |-> "partial", v |-> "", c |-> <<TWord(w)>>]

JNull == [t |-> "null", s |-> <<>>, a |-> <<>>]
JBool(b) == [t |-> b, s |-> <<>>, a |-> <<>>]
JNum(n) == [t |-> "num", s |-> <<TNum(n)>>, a |-> <<>>]
JStr(c) == [t |-> "str", s |-> c, a |-> <<>>]
JArr(items) == [t |-> "arr", s |-> <<>>, a |-> [i \in DOMAIN items |-> [key |-> <<>>, val |-> items[i]]]]
JObj(members) == [t |-> "obj", s |-> <<>>, a |-> members]
\* The str "w" as a value
JWord(w) == JStr(<<TWord(w)>>)

\* The items of an array
Items(v) == [i \in DOMAIN v.a |-> v.a[i].val]

\* Python truthiness of a value loaded from JSON
JTruthy(v) ==
    CASE v.t = "null" -> FALSE
      [] v.t = "false" -> FALSE
      [] v.t = "true" -> TRUE
      [] v.t = "num" -> v.s # <<TNum("0")>>
      [] v.t = "str" -> Len(v.s) > 0
      [] OTHER -> Len(v.a) > 0

\* x or default
JOr(v, default) == IF JTruthy(v) THEN v ELSE default

\* isinstance(v, dict) and d.get(key, default): json.loads keeps the last
\* of the members that share a key
IsDict(v) == v.t = "obj"
DictGet(d, key, default) ==
    LET hits == {i \in DOMAIN d.a : d.a[i].key = <<TWord(key)>>}
    IN  IF hits = {} THEN default
        ELSE d.a[CHOOSE i \in hits : \A j \in hits : j <= i].val

\* json.loads: the value that starts at token i, and the position after it
RECURSIVE json_value(_, _)
RECURSIVE json_array(_, _, _)
RECURSIVE json_object(_, _, _)
json_fail == [ok |-> FALSE, val |-> JNull, next |-> 0]
json_value(toks, i) ==
    IF i > Len(toks) THEN json_fail
    ELSE CASE toks[i].k = "str" -> [ok |-> TRUE, val |-> JStr(toks[i].c), next |-> i + 1]
           [] toks[i].k = "num" -> [ok |-> TRUE, val |-> JNum(toks[i].v), next |-> i + 1]
           [] toks[i].k = "lit" ->
                [ok |-> TRUE, next |-> i + 1,
                 val |-> IF toks[i].v = "null" THEN JNull ELSE JBool(toks[i].v)]
           [] toks[i].k = "[" ->
                IF i + 1 <= Len(toks) /\ toks[i + 1] = TRBracket
                THEN [ok |-> TRUE, val |-> JArr(<<>>), next |-> i + 2]
                ELSE json_array(toks, i + 1, <<>>)
           [] toks[i].k = "{" ->
                IF i + 1 <= Len(toks) /\ toks[i + 1] = TClose
                THEN [ok |-> TRUE, val |-> JObj(<<>>), next |-> i + 2]
                ELSE json_object(toks, i + 1, <<>>)
           [] OTHER -> json_fail

\* The items of an array from token i on, acc being the items before them
json_array(toks, i, acc) ==
    LET item == json_value(toks, i)
    IN  IF ~item.ok \/ item.next > Len(toks) THEN json_fail
        ELSE IF toks[item.next] = TRBracket
        THEN [ok |-> TRUE, val |-> JArr(Append(acc, item.val)), next |-> item.next + 1]
        ELSE IF toks[item.next] = TComma
        THEN json_array(toks, item.next + 1, Append(acc, item.val))
        ELSE json_fail

\* The members of an object from token i on, acc being the members before
json_object(toks, i, acc) ==
    IF i + 1 > Len(toks) \/ toks[i].k # "str" \/ toks[i + 1] # TColon THEN json_fail
    ELSE LET member == json_value(toks, i + 2)
             all == Append(acc, [key |-> toks[i].c, val |-> member.val])
         IN  IF ~member.ok \/ member.next > Len(toks) THEN json_fail
             ELSE IF toks[member.next] = TClose
             THEN [ok |-> TRUE, val |-> JObj(all), next |-> member.next + 1]
             ELSE IF toks[member.next] = TComma
             THEN json_object(toks, member.next + 1, all)
             ELSE json_fail

\* json.loads(text): the value, or a JSONDecodeError when the text is no
\* JSON document or something follows the document
json_loads(toks) ==
    LET r == json_value(toks, 1)
    IN  IF r.ok /\ r.next = Len(toks) + 1 THEN [ok |-> TRUE, val |-> r.val]
        ELSE [ok |-> FALSE, val |-> JNull]

----------------------------------------------------------------------------
(* _safe_parse and _fix_truncated_json *)

Count(toks, tok) == Cardinality({i \in DOMAIN toks : toks[i] = tok})

\* tok * n
Repeat(tok, n) == [i \in 1..n |-> tok]

\* text with the match of r",\s*$" removed
StripTrailingComma(toks) ==
    IF Len(toks) > 0 /\ toks[Len(toks)] = TComma THEN SubSeq(toks, 1, Len(toks) - 1)
    ELSE toks

\* The tokens from j on hold no quote, "}" or "]" after an optional
\* opening quote: the tail "?[^"}\]]*$ of the pattern of line 260
OpenTail(toks, j) ==
    \A n \in j..Len(toks) :
        \/ toks[n].k \in {"num", "lit", "word", "[", "{", ",", ":", "fence"}
        \/ toks[n].k = "partial" /\ n = j

\* text with the leftmost match of r',\s*"[^"]*":\s*"?[^"}\]]*$' removed
StripIncompletePair(toks) ==
    LET starts == {i \in 1..(Len(toks) - 2) :
                      /\ toks[i] = TComma
                      /\ toks[i + 1].k = "str"
                      /\ toks[i + 2] = TColon
                      /\ OpenTail(toks, i + 3)}
    IN  IF starts = {} THEN toks
        ELSE SubSeq(toks, 1, (CHOOSE i \in starts : \A j \in starts : i <= j) - 1)

\* _fix_truncated_json(text): None or the text closed with the brackets
\* and braces it lacks
_fix_truncated_json(toks) ==
    LET open_braces == Count(toks, TOpen) - Count(toks, TClose)
        open_brackets == Count(toks, TLBracket) - Count(toks, TRBracket)
    IN  IF Len(toks) = 0 THEN None
        ELSE IF open_braces <= 0 /\ open_brackets <= 0 THEN None
        ELSE Some(StripIncompletePair(StripTrailingComma(toks))
                    \o Repeat(TRBracket, open_brackets)
                    \o Repeat(TClose, open_braces))

\* Lines 219-224: the inside of the first fenced code block, or the text
\* without its opening fence
StripCodeBlock(toks) ==
    LET fences == {i \in DOMAIN toks : toks[i] = TFence}
        first == CHOOSE i \in fences : \A j \in fences : i <= j
        later == fences \ {first}
        close == CHOOSE i \in later : \A j \in later : i <= j
        body == IF first + 1 <= Len(toks) /\ toks[first + 1] = TWord("json")
                THEN first + 2 ELSE first + 1
    IN  IF fences = {} THEN toks
        ELSE IF later # {} THEN SubSeq(toks, body, close - 1)
        ELSE IF first = 1 THEN SubSeq(toks, body, Len(toks))
        ELSE toks

\* Lines 227-229: from the first "{" to the last "}"
ExtractBraces(toks) ==
    LET opens == {i \in DOMAIN toks : toks[i] = TOpen}
        first == CHOOSE i \in opens : \A j \in opens : i <= j
        closes == {i \in DOMAIN toks : toks[i] = TClose /\ i > first}
    IN  IF opens = {} \/ closes = {} THEN toks
        ELSE SubSeq(toks, first, CHOOSE i \in closes : \A j \in closes : j <= i)

\* _safe_parse(raw): [status, val]; val is None or Some(the loaded value).
\* raw is the value _call_api returned (not None).
_safe_parse(raw) ==
    IF ~JTruthy(raw) THEN [status |-> "returned", val |-> None]
    ELSE IF raw.t # "str" THEN [status |-> "raised", val |-> None]
    ELSE LET text == ExtractBraces(StripCodeBlock(raw.s))
             direct == json_loads(text)
             fixed == _fix_truncated_json(text)
             again == IF fixed = None \/ Len(fixed[1]) = 0
                      THEN [ok |-> FALSE, val |-> JNull]
                      ELSE json_loads(fixed[1])
         IN  IF direct.ok
             THEN [status |-> "returned",
                   val |-> IF direct.val = JNull THEN None ELSE Some(direct.val)]
             ELSE IF again.ok
             THEN [status |-> "returned",
                   val |-> IF again.val = JNull THEN None ELSE Some(again.val)]
             ELSE [status |-> "returned", val |-> None]

----------------------------------------------------------------------------
(* _normalize and _empty_result *)

Member(key, val) == [key |-> <<TWord(key)>>, val |-> val]

\* d.get(key) or None, d.get(key) or []
GetOrNone(d, key) == JOr(DictGet(d, key, JNull), JNull)
GetOrList(d, key) == JOr(DictGet(d, key, JNull), JArr(<<>>))

\* `for x in v` raises TypeError: v is a number or True
NotIterable(v) == v.t \in {"num", "true"}

\* [x for x in v if isinstance(x, dict)]: the members of a list that are
\* objects; the keys of an object and the characters of a str are none
DictsIn(v) ==
    IF v.t = "arr" THEN SelectSeq(Items(v), IsDict) ELSE <<>>

\* [x for x in v if isinstance(x, str)] when v is a list, [] otherwise
StrsIn(v) ==
    IF v.t = "arr" THEN SelectSeq(Items(v), LAMBDA x : x.t = "str") ELSE <<>>

NormalizeExperience(exp) ==
    JObj(<<Member("job_title", GetOrNone(exp, "job_title")),
           Member("company", GetOrNone(exp, "company")),
           Member("start_date", GetOrNone(exp, "start_date")),
           Member("end_date", GetOrNone(exp, "end_date")),
           Member("description", GetOrList(exp, "description"))>>)

NormalizeEducation(edu) ==
    JObj(<<Member("degree", GetOrNone(edu, "degree")),
           Member("university", GetOrNone(edu, "university")),
           Member("year", GetOrNone(edu, "year"))>>)

NormalizeProject(proj) ==
    JObj(<<Member("project_name", GetOrNone(proj, "project_name")),
           Member("site_name", GetOrNone(proj, "site_name")),
           Member("role", GetOrNone(proj, "role")),
           Member("responsibilities", GetOrList(proj, "responsibilities")),
           Member("duration_start", GetOrNone(proj, "duration_start")),
           Member("duration_end", GetOrNone(proj, "duration_end"))>>)

NormalizeLanguage(lang) ==
    JObj(<<Member("language", GetOrNone(lang, "language")),
           Member("proficiency", JOr(DictGet(lang, "proficiency", JNull), JStr(<<TWord("Not"), TWord("Specified")>>)))>>)

MapSeq(xs, Op(_)) == [i \in DOMAIN xs |-> Op(xs[i])]

\* _empty_result()
_empty_result ==
    [name |-> JNull, summary |-> JNull, position |-> JNull, discipline |-> JNull,
     skills |-> JArr(<<>>), experience |-> JArr(<<>>), education |-> JArr(<<>>),
     projects |-> JArr(<<>>), certifications |-> JArr(<<>>), languages |-> JArr(<<>>)]

\* _normalize(data): [status, val]; raises AttributeError when data has no
\* get (it is no dict) and TypeError when a list field cannot be iterated
_normalize(data) ==
    IF ~IsDict(data) THEN [status |-> "raised", val |-> _empty_result]
    ELSE LET experience == GetOrList(data, "experience")
             education == GetOrList(data, "education")
             projects == GetOrList(data, "projects")
             languages == GetOrList(data, "languages")
         IN  IF \/ NotIterable(experience) \/ NotIterable(education)
                \/ NotIterable(projects) \/ NotIterable(languages)
             THEN [status |-> "raised", val |-> _empty_result]
             ELSE [status |-> "returned",
                   val |-> [name |-> GetOrNone(data, "name"),
                            summary |-> GetOrNone(data, "summary"),
                            position |-> GetOrNone(data, "position"),
                            discipline |-> GetOrNone(data, "discipline"),
                            experience |-> JArr(MapSeq(DictsIn(experience), NormalizeExperience)),
                            education |-> JArr(MapSeq(DictsIn(education), NormalizeEducation)),
                            projects |-> JArr(MapSeq(DictsIn(projects), NormalizeProject)),
                            certifications |-> JArr(StrsIn(GetOrList(data, "certifications"))),
                            skills |-> JArr(StrsIn(GetOrList(data, "skills"))),
                            languages |-> JArr(MapSeq(DictsIn(languages), NormalizeLanguage))]]

----------------------------------------------------------------------------
(* _call_api: the retry loop, one request to the AI service per attempt *)

\* extract_sections calls _call_api(prompt, retry_count=3)
retry_count == 3

\* Lines 183-196 on the body of a 200 response: [exc, ret].  exc tells
\* that an exception was raised inside the try block (resp.json() fails,
\* a value has no get, cannot be indexed or has no len); ret is None or
\* Some(text).
ReadBody(body) ==
    LET data == json_loads(body)
        raised == [exc |-> TRUE, ret |-> None]
        nothing == [exc |-> FALSE, ret |-> None]
        candidate_list == DictGet(data.val, "candidates", JArr(<<>>))
        first == Items(candidate_list)[1]
        content == DictGet(first, "content", JObj(<<>>))
        parts == DictGet(content, "parts", JArr(<<>>))
        part == Items(parts)[1]
        text == DictGet(part, "text", JStr(<<>>))
    IN  IF ~data.ok \/ ~IsDict(data.val) THEN raised
        ELSE IF ~JTruthy(candidate_list) THEN nothing
        ELSE IF candidate_list.t # "arr" \/ ~IsDict(first) THEN raised
        ELSE IF ~IsDict(content) THEN raised
        ELSE IF ~JTruthy(parts) THEN nothing
        ELSE IF parts.t # "arr" \/ ~IsDict(part) THEN raised
        ELSE IF text.t \in {"null", "true", "false", "num"} THEN raised
        ELSE [exc |-> FALSE, ret |-> Some(text)]

NewCall == [pc |-> "idle", attempt |-> 0, requests |-> 0, slept |-> 0, status |-> "none", ret |-> None]

\* return None / return text from _call_api
Return(call, ret) == [call EXCEPT !.pc = "done", !.status = "returned", !.ret = ret]

\* `continue`: the next attempt, or line 207 when the attempts are used up
Continue(call, wait) ==
    IF call.attempt < retry_count
    THEN [call EXCEPT !.attempt = @ + 1, !.slept = @ + wait]
    ELSE Return([call EXCEPT !.slept = @ + wait], None)

\* A loop that tries again after a 429 without counting the attempt
_call_api_step_RetryNotCounted(call, o) ==
    LET sent == [call EXCEPT !.requests = @ + 1]
    IN  CASE o.kind = "status429" ->
                IF sent.requests <= retry_count THEN [sent EXCEPT !.slept = @ + 5]
                ELSE Return(sent, None)
          [] o.kind = "status500" ->
                IF call.attempt < retry_count THEN Continue(sent, 2) ELSE Return(sent, None)
          [] o.kind = "timeout" ->
                IF call.attempt < retry_count THEN Continue(sent, 0) ELSE Return(sent, None)
          [] o.kind = "exception" -> Return(sent, None)
          [] OTHER -> Return(sent, ReadBody(o.body).ret)

\* A loop that waits the same 5 seconds after every 429
_call_api_step_FixedWait(call, o) ==
    LET sent == [call EXCEPT !.requests = @ + 1]
    IN  CASE o.kind = "status429" -> Continue(sent, 5)
          [] o.kind = "status500" ->
                IF call.attempt < retry_count THEN Continue(sent, 2) ELSE Return(sent, None)
          [] o.kind = "timeout" ->
                IF call.attempt < retry_count THEN Continue(sent, 0) ELSE Return(sent, None)
          [] o.kind = "exception" -> Return(sent, None)
          [] OTHER -> Return(sent, ReadBody(o.body).ret)

\* One pass of the loop of _call_api, the service answering with outcome o
_call_api_step(call, o) ==
    LET sent == [call EXCEPT !.requests = @ + 1]
    IN  CASE o.kind = "status429" -> Continue(sent, 5 * call.attempt)
          [] o.kind = "status500" ->
                IF call.attempt < retry_count THEN Continue(sent, 2) ELSE Return(sent, None)
          [] o.kind = "timeout" ->
                IF call.attempt < retry_count THEN Continue(sent, 0) ELSE Return(sent, None)
          [] o.kind = "exception" -> Return(sent, None)
          [] OTHER -> Return(sent, ReadBody(o.body).ret)

\* Lines 48-57 of extract_sections, raw being what _call_api returned
FinishExtract(raw) ==
    LET loaded == _safe_parse(raw[1])
    IN  IF raw = None THEN [status |-> "returned", val |-> _empty_result]
        ELSE IF loaded.status = "raised" THEN [status |-> "raised", val |-> _empty_result]
        ELSE IF loaded.val = None THEN [status |-> "returned", val |-> _empty_result]
        ELSE _normalize(loaded.val[1])

----------------------------------------------------------------------------
(* Answers of the AI service *)

Pair(key, val) == <<TStr(key), TColon>> \o val
Obj(members) == <<TOpen>> \o JoinWith(members, <<TComma>>) \o <<TClose>>
Arr(items) == <<TLBracket>> \o JoinWith(items, <<TComma>>) \o <<TRBracket>>

text_object == Obj(<<Pair("name", <<TStr("Ann")>>), Pair("skills", Arr(<<<<TStr("python")>>, <<TNum("5")>>>>)), Pair("experience", Arr(<<Obj(<<Pair("job_title", <<TStr("Engineer")>>)>>), <<TStr("x")>>>>)), Pair("extra", <<TNum("1")>>)>>)
text_empty_object == Obj(<<>>)
text_fenced == <<TFence, TWord("json")>> \o Obj(<<Pair("name", <<TStr("Ann")>>)>>) \o <<TFence>>
text_prose_then_object == <<TWord("Here"), TWord("is"), TColon>> \o Obj(<<Pair("summary", <<TLit("null")>>), Pair("languages", Arr(<<Obj(<<Pair("language", <<TStr("English")>>)>>)>>))>>)
text_truncated_value == <<TOpen>> \o Pair("name", <<TStr("Ann")>>) \o <<TComma>> \o Pair("summary", <<TPartial("Exp")>>)
text_truncated_list == <<TOpen>> \o Pair("skills", <<TLBracket, TStr("python"), TComma, TPartial("ja")>>)
text_prose == <<TWord("Sorry"), TWord("no"), TWord("answer")>>
text_blank == <<>>
text_null == <<TLit("null")>>
text_array == Arr(<<<<TStr("python")>>>>)
text_number == <<TNum("5")>>
text_string == <<TStr("Ann")>>
text_number_field == Obj(<<Pair("name", <<TStr("Ann")>>), Pair("experience", <<TNum("5")>>)>>)
text_true_field == Obj(<<Pair("projects", <<TLit("true")>>)>>)
text_wrong_types == Obj(<<Pair("name", <<TNum("0")>>), Pair("skills", <<TStr("python")>>), Pair("education", <<TStr("BSc")>>), Pair("certifications", Obj(<<Pair("a", <<TNum("1")>>)>>)), Pair("projects", Obj(<<Pair("b", <<TNum("2")>>)>>))>>)

\* The texts the service puts into parts[0].text
ResponseTexts == {text_object, text_empty_object, text_fenced, text_prose_then_object, text_truncated_value, text_truncated_list, text_prose, text_blank, text_null, text_array, text_number, text_string, text_number_field, text_true_field, text_wrong_types}

\* The body of a 200 response whose parts[0].text is the token(s) text
Envelope(text) == Obj(<<Pair("candidates", Arr(<<Obj(<<Pair("content", Obj(<<Pair("parts", Arr(<<Obj(<<Pair("text", text)>>)>>))>>))>>)>>))>>)

body_not_json == <<TWord("Bad"), TWord("Gateway")>>
body_list == Arr(<<>>)
body_no_candidates == Obj(<<Pair("candidates", Arr(<<>>))>>)
body_blocked == Obj(<<Pair("promptFeedback", Obj(<<Pair("blockReason", <<TStr("SAFETY")>>)>>))>>)
body_no_content == Obj(<<Pair("candidates", Arr(<<Obj(<<Pair("finishReason", <<TStr("MAX_TOKENS")>>)>>)>>))>>)
body_null_content == Obj(<<Pair("candidates", Arr(<<Obj(<<Pair("content", <<TLit("null")>>)>>)>>))>>)
body_no_parts == Obj(<<Pair("candidates", Arr(<<Obj(<<Pair("content", Obj(<<Pair("parts", Arr(<<>>))>>))>>)>>))>>)
body_no_text == Envelope(<<TLit("null")>>)
body_list_text == Envelope(Arr(<<<<TStr("Ann")>>>>))

ResponseBodies ==
    {body_not_json, body_list, body_no_candidates, body_blocked, body_no_content, body_null_content, body_no_parts, body_no_text, body_list_text}
        \cup {Envelope(<<TStrOf(t)>>) : t \in ResponseTexts}

\* What one request to the service can end in
Failure(kind) == [kind |-> kind, body |-> <<>>]
Outcomes ==
    {Failure("status429"), Failure("status500"), Failure("timeout"), Failure("exception")}
        \cup {[kind |-> "ok200", body |-> b] : b \in ResponseBodies}

NoResponse == Failure("none")
NoSections == [status |-> "none", val |-> _empty_result]

----------------------------------------------------------------------------
(* extract_sections as a process: it starts, sends its requests one by     *)
(* one and returns                                                         *)

GeminiInit ==
    /\ geminiEnabled \in BOOLEAN
    /\ apiCall = NewCall
    /\ lastResponse = NoResponse
    /\ sections = NoSections
    /\ candidate = BaseCandidate /\ jd = BaseJob /\ hashSeed = "h1"
    /\ result = NoMatchResult("none") /\ prevResult = NoMatchResult("none")
    /\ IdleJD /\ IdleMatch /\ IdleParse /\ IdleEval /\ IdleUpload

\* extract_sections(text) of a disabled parser (lines 40-41)
ExtractDisabled ==
    /\ ~geminiEnabled
    /\ sections' = [status |-> "returned", val |-> _empty_result]
    /\ UNCHANGED <<geminiEnabled, apiCall, lastResponse>>
    /\ UNCHANGED <<scoreVars, jdVars, matchVars, parseVars, evalVars, uploadVars>>

\* extract_sections(text) up to the first request (lines 43-47, 154-164)
StartCall ==
    /\ geminiEnabled
    /\ apiCall.pc \in {"idle", "done"}
    /\ apiCall' = [NewCall EXCEPT !.pc = "sending", !.attempt = 1]
    /\ lastResponse' = NoResponse
    /\ sections' = NoSections
    /\ UNCHANGED geminiEnabled
    /\ UNCHANGED <<scoreVars, jdVars, matchVars, parseVars, evalVars, uploadVars>>

\* One attempt: requests.post and what follows it, up to the next
\* requests.post or to the return of extract_sections
Attempt ==
    /\ apiCall.pc = "sending"
    /\ \E o \in Outcomes :
          LET call == _call_api_step(apiCall, o)
          IN  /\ apiCall' = call
              /\ lastResponse' = o
              /\ sections' = IF call.pc = "done" THEN FinishExtract(call.ret) ELSE sections
    /\ UNCHANGED geminiEnabled
    /\ UNCHANGED <<scoreVars, jdVars, matchVars, parseVars, evalVars, uploadVars>>

GeminiNext == ExtractDisabled \/ StartCall \/ Attempt

GeminiSpec == GeminiInit /\ [][GeminiNext]_vars

\* A request returns within self.timeout and a sleep ends: an attempt that
\* can be made is made
GeminiFairSpec == GeminiSpec /\ WF_vars(Attempt)

----------------------------------------------------------------------------
(* The rule-based parser: ATSParser (app/services/ats_parser.py).          *)
(*                                                                         *)
(* A line is the str LineStr(words): the words of the line with one space  *)
(* between them, so a line has no leading or trailing white space and a    *)
(* blank line is the empty str.  The en dash and the em dash are the       *)
(* characters "ndash" and "mdash".                                         *)

EnDash == "ndash"
EmDash == "mdash"

UpperSet == Range(UpperCase)
LowerSet == Range(LowerCase)
DigitSet == Range(Digits)
SpaceSet == {" ", "\n"}

\* The first position from i on whose character is not in class, Len(s)+1
\* when there is none: the end of a greedy run of class characters
RECURSIVE RunEnd(_, _, _)
RunEnd(s, i, class) ==
    IF i > Len(s) \/ s[i] \notin class THEN i ELSE RunEnd(s, i + 1, class)

\* s[i:].startswith(prefix), positions counted from 1
StartsAt(s, i, prefix) ==
    i + Len(prefix) - 1 <= Len(s) /\ SubSeq(s, i, i + Len(prefix) - 1) = prefix

\* s[i:] from position i to the end
From(s, i) == SubSeq(s, i, Len(s))

\* s.strip()
RECURSIVE LastNonSpace(_, _)
LastNonSpace(s, i) == IF i = 0 \/ s[i] \notin SpaceSet THEN i ELSE LastNonSpace(s, i - 1)
Strip(s) == SubSeq(s, RunEnd(s, 1, SpaceSet), LastNonSpace(s, Len(s)))

\* len(s.split())
WordCount(s) ==
    Cardinality({i \in DOMAIN s : s[i] \notin SpaceSet /\ (i = 1 \/ s[i - 1] \in SpaceSet)})

\* The least and the greatest member of a non-empty set of positions
Least(ps) == CHOOSE i \in ps : \A j \in ps : i <= j
Greatest(ps) == CHOOSE i \in ps : \A j \in ps : j <= i

\* any(k in s for k in keywords)
ContainsAny(s, keywords) == \E i \in DOMAIN keywords : Contains(s, keywords[i])

----------------------------------------------------------------------------
(* DATE_PATTERN (lines 25-30) *)

MonthPrefixes == << <<"J","a","n">>, <<"F","e","b">>, <<"M","a","r">>, <<"A","p","r">>, <<"M","a","y">>, <<"J","u","n">>, <<"J","u","l">>, <<"A","u","g">>, <<"S","e","p">>, <<"O","c","t">>, <<"N","o","v">>, <<"D","e","c">> >>

PresentWords == << <<"P","r","e","s","e","n","t">>, <<"C","u","r","r","e","n","t">>, <<"N","o","w">>, <<"p","r","e","s","e","n","t">>, <<"c","u","r","r","e","n","t">>, <<"n","o","w">> >>

\* The characters of [-to] with the en and em dash
RangeSeparators == {"-", EnDash, EmDash, "t", "o"}

\* \d{4} at position i: the position after it, 0 when it does not match
YearEnd(s, i) ==
    IF i + 3 <= Len(s) /\ \A j \in i..(i + 3) : s[j] \in DigitSet THEN i + 4 ELSE 0

\* (Jan|...|Dec)[a-z]*\s+\d{4} at position i: the position after it or 0.
\* "Sept" is "Sep" and a letter of [a-z]*.
MonthYearEnd(s, i) ==
    IF \E m \in DOMAIN MonthPrefixes : StartsAt(s, i, MonthPrefixes[m])
    THEN LET letters == RunEnd(s, i + 3, LowerSet)
             spaces == RunEnd(s, letters, SpaceSet)
         IN  IF spaces > letters THEN YearEnd(s, spaces) ELSE 0
    ELSE 0

\* Group 1 at position i: the position after it or 0
DateStartEnd(s, i) ==
    IF MonthYearEnd(s, i) # 0 THEN MonthYearEnd(s, i) ELSE YearEnd(s, i)

\* Group 3 at position i: the first alternative that matches
DateEndEnd(s, i) ==
    LET words == {w \in DOMAIN PresentWords : StartsAt(s, i, PresentWords[w])}
    IN  IF words # {}
        THEN i + Len(PresentWords[CHOOSE w \in words : \A v \in words : w <= v])
        ELSE IF MonthYearEnd(s, i) # 0 THEN MonthYearEnd(s, i)
        ELSE YearEnd(s, i)

NoDate == [found |-> FALSE, group1 |-> <<>>, group3 |-> <<>>]

\* Group 3 when it starts at position g
DateGroup3(s, g) == SubSeq(s, g, DateEndEnd(s, g) - 1)

\* The match whose group 1 is s[i..e1-1] and whose run of [-to] with the en and em dash starts
\* at a: ks are the lengths of that run after which, white space skipped,
\* the end of the range follows, and the longest of them is taken
DateRangeOf(s, i, e1, a, ks) ==
    IF ks = {} THEN NoDate
    ELSE [found |-> TRUE,
          group1 |-> SubSeq(s, i, e1 - 1),
          group3 |-> DateGroup3(s, RunEnd(s, a + Greatest(ks), SpaceSet))]

DateRangeFrom(s, i, e1, a) ==
    DateRangeOf(s, i, e1, a,
                {k \in 1..(RunEnd(s, a, RangeSeparators) - a) :
                    DateEndEnd(s, RunEnd(s, a + k, SpaceSet)) # 0})

\* The match of DATE_PATTERN that starts at position i: group 1, \s*, the
\* run of [-to] with the en and em dash, \s*, group 3
DateMatchAt(s, i) ==
    IF DateStartEnd(s, i) = 0 THEN NoDate
    ELSE DateRangeFrom(s, i, DateStartEnd(s, i), RunEnd(s, DateStartEnd(s, i), SpaceSet))

\* re.search(DATE_PATTERN, line): the leftmost match, looked for from
\* position i on
RECURSIVE DateSearchFrom(_, _)
DateSearchFrom(s, i) ==
    IF i > Len(s) THEN NoDate
    ELSE IF DateMatchAt(s, i).found THEN DateMatchAt(s, i)
    ELSE DateSearchFrom(s, i + 1)

date_search(s) == DateSearchFrom(s, 1)

----------------------------------------------------------------------------
(* Keyword lists (lines 32-59) *)

ROLE_KEYWORDS == << <<"e","n","g","i","n","e","e","r">>, <<"m","a","n","a","g","e","r">>, <<"m","o","d","e","l","e","r">>, <<"t","e","c","h","n","i","c","i","a","n">>, <<"d","e","s","i","g","n","e","r">>, <<"s","u","p","e","r","v","i","s","o","r">>, <<"c","o","o","r","d","i","n","a","t","o","r">>, <<"s","p","e","c","i","a","l","i","s","t">>, <<"a","r","c","h","i","t","e","c","t">>, <<"d","r","a","f","t","s","m","a","n">> >>
COMPANY_KEYWORDS == << <<"l","l","c">>, <<"l","t","d">>, <<"p","r","i","v","a","t","e">>, <<"p","v","t">>, <<"c","o","n","s","u","l","t">>, <<"c","o","n","s","u","l","t","a","n","c","y">>, <<"c","o","n","t","r","a","c","t","i","n","g">>, <<"e","n","g","i","n","e","e","r","i","n","g">>, <<"i","n","f","r","a","s","t","r","u","c","t","u","r","e">>, <<"s","e","r","v","i","c","e","s">>, <<"g","l","o","b","a","l">>, <<"s","o","l","u","t","i","o","n","s">> >>
SITE_LOCATION_KEYWORDS == << <<"r","i","y","a","d","h">>, <<"d","u","b","a","i">>, <<"a","b","u"," ","d","h","a","b","i">>, <<"d","o","h","a">>, <<"j","e","d","d","a","h">>, <<"m","e","c","c","a">>, <<"m","e","d","i","n","a">>, <<"s","h","a","r","j","a","h">>, <<"m","u","s","c","a","t">>, <<"m","a","n","a","m","a">>, <<"k","u","w","a","i","t">>, <<"g","c","c">>, <<"s","a","u","d","i">>, <<"u","a","e">>, <<"q","a","t","a","r">>, <<"o","m","a","n">>, <<"b","a","h","r","a","i","n">>, <<"k","s","a">>, <<"u","s","a">>, <<"u","k">>, <<"i","n","d","i","a">>, <<"l","o","c","a","t","i","o","n">>, <<"s","i","t","e">> >>
\* DISCIPLINES: the names in the order of the dict, and the keys of each
DisciplineNames == << <<"C","i","v","i","l"," ","E","n","g","i","n","e","e","r","i","n","g">>, <<"B","I","M">>, <<"A","r","c","h","i","t","e","c","t","u","r","e">> >>
DisciplineKeys == << << <<"c","i","v","i","l">>, <<"s","t","r","u","c","t","u","r","a","l">>, <<"c","o","n","s","t","r","u","c","t","i","o","n">> >>, << <<"b","i","m">>, <<"r","e","v","i","t">>, <<"n","a","v","i","s","w","o","r","k","s">> >>, << <<"a","r","c","h","i","t","e","c","t">>, <<"a","r","c","h","i","t","e","c","t","u","r","e">> >> >>

----------------------------------------------------------------------------
(* _clean_lines, _extract_experience and _parse_experience_block *)

\* The lines of text.split("\n") that _clean_lines keeps: not blank, no
\* page marker ("--- Page...", "Page <digit>...")
IsPageMarker(line) ==
    \/ StartsAt(line, 1, <<"-","-","-"," ","P","a","g","e">>)
    \/ StartsAt(line, 1, <<"P","a","g","e"," ">>) /\ Len(line) >= 6 /\ line[6] \in DigitSet

_clean_lines(lines) ==
    SelectSeq([i \in DOMAIN lines |-> Strip(lines[i])],
              LAMBDA line : Len(line) > 0 /\ ~IsPageMarker(line))

\* Line 168: a "Title | Company" or "Title - Company" header
mixed_format(line) ==
    /\ \/ Contains(line, <<"|">>)
       \/ Contains(line, <<" ", "-", " ">>)
       \/ Contains(line, <<" ", EmDash, " ">>)
    /\ ContainsAny(Lower(line), ROLE_KEYWORDS)

\* Line 172: the line opens a new block
StartsBlock(line) == date_search(line).found \/ mixed_format(line)

\* Lines 164-180: the blocks, current being the block that is open when
\* line i is read
RECURSIVE ExperienceBlocks(_, _, _, _)
ExperienceBlocks(lines, i, blocks, current) ==
    IF i > Len(lines)
    THEN IF Len(current) > 0 THEN Append(blocks, current) ELSE blocks
    ELSE IF StartsBlock(lines[i])
    THEN ExperienceBlocks(lines, i + 1,
                          IF Len(current) > 0 THEN Append(blocks, current) ELSE blocks,
                          <<lines[i]>>)
    ELSE ExperienceBlocks(lines, i + 1, blocks, Append(current, lines[i]))

\* block[:n]
Head3(block) == SubSeq(block, 1, IF Len(block) < 3 THEN Len(block) ELSE 3)

\* `not job["job_title"]`: the slot is None or the empty str
Unfilled(slot) == slot = None \/ Len(slot[1]) = 0

\* Lines 209-213 and 217-220: the first line of lines that passes, or None
FirstLine(lines, Passes(_)) ==
    LET hits == {i \in DOMAIN lines : Passes(lines[i])}
    IN  IF hits = {} THEN None ELSE Some(lines[CHOOSE i \in hits : \A j \in hits : i <= j])

IsTitleLine(line) == ContainsAny(Lower(line), ROLE_KEYWORDS) /\ WordCount(line) <= 7
IsCompanyLine(line) == ContainsAny(Lower(line), COMPANY_KEYWORDS)

\* Lines 225-227: the dates of a line that matches DATE_PATTERN go into
\* the entry
WithDates(job, m) ==
    IF m.found THEN [job EXCEPT !.start_date = Some(m.group1), !.end_date = Some(m.group3)]
    ELSE job

\* Lines 223-227: the loop over block[:3], job being the entry before
\* line i
RECURSIVE DateLoop(_, _, _)
DateLoop(lines, i, job) ==
    IF i > Len(lines) THEN job
    ELSE DateLoop(lines, i + 1, WithDates(job, date_search(lines[i])))

\* Case 1 (lines 202-205): a "Job Title | Company" header
Case1(header) ==
    LET bar == CHOOSE i \in DOMAIN header : header[i] = "|" /\ \A j \in 1..(i - 1) : header[j] # "|"
    IN  IF Contains(header, <<"|">>)
        THEN [job_title |-> Some(Strip(SubSeq(header, 1, bar - 1))),
              company |-> Some(Strip(From(header, bar + 1)))]
        ELSE [job_title |-> None, company |-> None]

\* A Case 2 that takes the role-keyword line whatever the slot holds
Case2_KeywordOverHeader(block, job_title) ==
    IF FirstLine(Head3(block), IsTitleLine) # None
    THEN FirstLine(Head3(block), IsTitleLine)
    ELSE job_title

\* Case 2 (lines 208-213): the job title by keyword, when the slot is empty
Case2(block, job_title) ==
    IF Unfilled(job_title) /\ FirstLine(Head3(block), IsTitleLine) # None
    THEN FirstLine(Head3(block), IsTitleLine)
    ELSE job_title

\* Case 3 (lines 216-220): the company by keyword, when the slot is empty
Case3(block, company) ==
    IF Unfilled(company) /\ FirstLine(Head3(block), IsCompanyLine) # None
    THEN FirstLine(Head3(block), IsCompanyLine)
    ELSE company

\* Lines 230-237: the lines of six words or more that are neither a date
\* line nor the title nor the company
WithDescription(block, job) ==
    [job EXCEPT !.description =
        SelectSeq(block, LAMBDA line : /\ ~date_search(line).found
                                       /\ Some(line) # job.job_title /\ Some(line) # job.company
                                       /\ WordCount(line) >= 6)]

_parse_experience_block(block) ==
    WithDescription(block,
        DateLoop(Head3(block), 1,
                 [job_title |-> Case2(block, Case1(block[1]).job_title),
                  company |-> Case3(block, Case1(block[1]).company),
                  start_date |-> None, end_date |-> None, description |-> <<>>]))

\* Lines 182-188: the entries of the blocks that have a start date
_extract_experience(lines) ==
    TheOne({SelectSeq([i \in DOMAIN blocks |-> _parse_experience_block(blocks[i])],
                      LAMBDA exp : ~Unfilled(exp.start_date)) :
               blocks \in {ExperienceBlocks(lines, 1, <<>>, <<>>)}})

----------------------------------------------------------------------------
(* Name, contacts, summary, education, certifications, discipline,        *)
(* position                                                                *)

AlnumSet == UpperSet \cup LowerSet \cup DigitSet
LetterSet == UpperSet \cup LowerSet

Prefix(xs, n) == SubSeq(xs, 1, IF Len(xs) < n THEN Len(xs) ELSE n)

ContactWords == << <<"e","m","a","i","l">>, <<"p","h","o","n","e">>, <<"l","i","n","k","e","d","i","n">> >>

\* Lines 113-119
IsNameLine(line) ==
    /\ ~ContainsAny(Lower(line), ContactWords)
    /\ WordCount(line) >= 2 /\ WordCount(line) <= 4
    /\ line[1] \in UpperSet
_extract_name(lines) == FirstLine(Prefix(lines, 8), IsNameLine)

\* Lines 124-126: the leftmost match of
\* [A-Za-z0-9._%+-]+@[A-Za-z0-9.-]+\.[A-Za-z]{2,}
\* for the "@" at position at: the local part is the run of its characters
\* that ends before the "@", the domain ends with the last "." that two
\* letters follow
LocalSet == AlnumSet \cup {".", "_", "%", "+", "-"}
DomainSet == AlnumSet \cup {".", "-"}
RECURSIVE RunStart(_, _, _)
RunStart(s, i, class) ==
    IF i < 1 \/ s[i] \notin class THEN i + 1 ELSE RunStart(s, i - 1, class)
EmailAt(s, at) ==
    LET start == RunStart(s, at - 1, LocalSet)
        domainEnd == RunEnd(s, at + 1, DomainSet)
        dots == {q \in (at + 2)..(domainEnd - 3) :
                    s[q] = "." /\ s[q + 1] \in LetterSet /\ s[q + 2] \in LetterSet}
    IN  IF s[at] # "@" \/ start = at \/ dots = {} THEN None
        ELSE Some(SubSeq(s, start, RunEnd(s, Greatest(dots) + 1, LetterSet) - 1))
_extract_email(text) ==
    LET ats == {i \in DOMAIN text : EmailAt(text, i) # None}
    IN  IF ats = {} THEN None ELSE EmailAt(text, Least(ats))

\* Lines 128-134: re.findall(r"[+\(]?\d[\d\-\s\(\)]{7,}\d", text) and the
\* first match with ten or more digits and "+"
PhoneSet == DigitSet \cup SpaceSet \cup {"-", "(", ")"}
\* The match that starts at position i: its last position or 0
PhoneEndAt(s, i) ==
    LET first == IF s[i] \in {"+", "("} /\ i + 1 <= Len(s) /\ s[i + 1] \in DigitSet
                 THEN i + 1 ELSE i
        run == RunEnd(s, first + 1, PhoneSet)
        lasts == {e \in (first + 8)..(run - 1) : s[e] \in DigitSet}
    IN  IF s[first] \notin DigitSet \/ lasts = {} THEN 0 ELSE Greatest(lasts)
RECURSIVE FirstPhone(_, _)
FirstPhone(s, i) ==
    LET starts == {p \in i..Len(s) : PhoneEndAt(s, p) # 0}
        p == Least(starts)
        cleaned == SelectSeq(SubSeq(s, p, PhoneEndAt(s, p)), LAMBDA c : c \in DigitSet \cup {"+"})
    IN  IF starts = {} THEN None
        ELSE IF Len(cleaned) >= 10 THEN Some(cleaned)
        ELSE FirstPhone(s, PhoneEndAt(s, p) + 1)
_extract_phone(text) == FirstPhone(text, 1)

\* "http://" or "https://" at position i: the position after it or 0
SchemeEnd(s, i) ==
    IF StartsAt(s, i, <<"h","t","t","p",":","/","/">>) THEN i + 7
    ELSE IF StartsAt(s, i, <<"h","t","t","p","s",":","/","/">>) THEN i + 8
    ELSE 0

\* The run of characters outside class from position i on
RECURSIVE RunEndNot(_, _, _)
RunEndNot(s, i, class) ==
    IF i > Len(s) \/ s[i] \in class THEN i ELSE RunEndNot(s, i + 1, class)

\* Lines 136-138: re.search(r"https?://[^\s]*linkedin[^\s]*", text)
_extract_linkedin(text) ==
    LET hits == {i \in DOMAIN text :
                    /\ SchemeEnd(text, i) # 0
                    /\ Contains(SubSeq(text, SchemeEnd(text, i), RunEndNot(text, i, SpaceSet) - 1),
                                <<"l","i","n","k","e","d","i","n">>)}
    IN  IF hits = {} THEN None
        ELSE Some(SubSeq(text, Least(hits), RunEndNot(text, Least(hits), SpaceSet) - 1))

\* Lines 140-141: re.findall(r"https?://[^\s<>\"']+", text)
UrlStopSet == SpaceSet \cup {"<", ">", "'"}
RECURSIVE UrlsFrom(_, _)
UrlsFrom(s, i) ==
    LET starts == {p \in i..Len(s) :
                      SchemeEnd(s, p) # 0 /\ RunEndNot(s, SchemeEnd(s, p), UrlStopSet) > SchemeEnd(s, p)}
        p == Least(starts)
        e == RunEndNot(s, SchemeEnd(s, p), UrlStopSet)
    IN  IF starts = {} THEN <<>> ELSE <<SubSeq(s, p, e - 1)>> \o UrlsFrom(s, e)
_extract_urls(text) == UrlsFrom(text, 1)

\* Lines 146-158
SummaryIgnore == << <<"p","h","o","n","e">>, <<"e","m","a","i","l">>, <<"l","i","n","k","e","d","i","n">>, <<"d","o","b">>, <<"i","n","d","i","a">>, <<"u","a","e">> >>
IsSummaryLine(line) == ~ContainsAny(Lower(line), SummaryIgnore) /\ WordCount(line) >= 8
_extract_summary(lines) ==
    LET summary == Prefix(SelectSeq(Prefix(lines, 15), IsSummaryLine), 3)
    IN  IF Len(summary) = 0 THEN None ELSE Some(JoinWith(summary, <<" ">>))

\* Lines 244-256: re.findall(r"(19|20)\d{2}", line) gives the first two
\* digits of each year, and years[0] is stored
DegreeKeys == << <<"b","a","c","h","e","l","o","r">>, <<"m","a","s","t","e","r">>, <<"b",".","e">>, <<"c","i","v","i","l"," ","e","n","g","i","n","e","e","r","i","n","g">> >>
CenturyAt(s, i) ==
    /\ i + 3 <= Len(s)
    /\ SubSeq(s, i, i + 1) \in {<<"1","9">>, <<"2","0">>}
    /\ s[i + 2] \in DigitSet /\ s[i + 3] \in DigitSet
EducationEntry(line) ==
    LET years == {i \in DOMAIN line : CenturyAt(line, i)}
    IN  [degree |-> Some(line), university |-> None,
         year |-> IF years = {} THEN None ELSE Some(SubSeq(line, Least(years), Least(years) + 1))]
_extract_education(lines) ==
    LET degrees == SelectSeq(lines, LAMBDA line : ContainsAny(Lower(line), DegreeKeys))
    IN  [i \in DOMAIN degrees |-> EducationEntry(degrees[i])]

\* Lines 581-582
_extract_certifications(lines) ==
    SelectSeq(lines, LAMBDA line : Contains(Lower(line), <<"c","e","r","t">>))

\* Lines 587-592: the first discipline one of whose keys is in the text,
\* "Civil Engineering" when there is none
_detect_discipline(text) ==
    LET hits == {d \in DOMAIN DisciplineNames : ContainsAny(Lower(text), DisciplineKeys[d])}
    IN  IF hits = {} THEN Some(<<"C","i","v","i","l"," ","E","n","g","i","n","e","e","r","i","n","g">>)
        ELSE Some(DisciplineNames[Least(hits)])

\* Lines 597-602
_detect_position(lines) == FirstLine(Prefix(lines, 20), IsTitleLine)

----------------------------------------------------------------------------
(* Projects: _extract_projects, _parse_project_block, _is_valid_project *)

BulletChar == "bullet"
\* The characters of [—\-|]
NameSeparators == {EmDash, "-", "|"}
\* The characters of [-] with the en and em dash
YearSeparators == {"-", EnDash, EmDash}

BUILDING_TYPES == << <<"h","o","t","e","l">>, <<"t","o","w","e","r">>, <<"b","u","i","l","d","i","n","g">>, <<"r","e","s","i","d","e","n","c","e">>, <<"m","a","l","l">>, <<"a","i","r","p","o","r","t">>, <<"h","o","s","p","i","t","a","l">>, <<"v","i","l","l","a">>, <<"s","t","a","d","i","u","m">>, <<"b","r","i","d","g","e">> >>
HEADER_LOCATIONS == << <<"r","i","y","a","d","h">>, <<"d","u","b","a","i">>, <<"a","b","u"," ","d","h","a","b","i">>, <<"d","o","h","a">>, <<"j","e","d","d","a","h">>, <<"u","s","a">>, <<"u","a","e">>, <<"g","c","c">>, <<"k","s","a">> >>

\* The line is title, optional white space, an optional ":" or ";" and
\* optional white space, title being one of titles (lines 291, 299)
IsSectionTitle(line_lower, titles) ==
    LET n == Len(line_lower)
        bare == IF n > 0 /\ line_lower[n] \in {":", ";"}
                THEN Strip(SubSeq(line_lower, 1, n - 1)) ELSE line_lower
    IN  \E t \in DOMAIN titles : bare = titles[t]

ProjectTitles == << <<"p","r","o","j","e","c","t">>, <<"p","r","o","j","e","c","t","s">>, <<"k","e","y"," ","p","r","o","j","e","c","t">>, <<"k","e","y"," ","p","r","o","j","e","c","t","s">>, <<"m","a","j","o","r"," ","p","r","o","j","e","c","t">>, <<"m","a","j","o","r"," ","p","r","o","j","e","c","t","s">> >>
OtherTitles == << <<"c","e","r","t","i","f","i","c","a","t","i","o","n">>, <<"c","e","r","t","i","f","i","c","a","t","i","o","n","s">>, <<"e","d","u","c","a","t","i","o","n">>, <<"s","k","i","l","l">>, <<"s","k","i","l","l","s">>, <<"t","r","a","i","n","i","n","g">>, <<"s","o","f","t","w","a","r","e">>, <<"t","e","c","h","n","i","c","a","l"," ","s","k","i","l","l">>, <<"t","e","c","h","n","i","c","a","l"," ","s","k","i","l","l","s">> >>

\* ^\s*\d+[\.)]\s+ at the start of the line: the position after the match
\* or 0
NumberingEnd(line) ==
    LET digits == RunEnd(line, 1, DigitSet)
        spaces == RunEnd(line, digits + 1, SpaceSet)
    IN  IF digits > 1 /\ digits <= Len(line) /\ line[digits] \in {".", ")"} /\ spaces > digits + 1
        THEN spaces ELSE 0

\* re.sub(r"^\s*\d+[\.)]\s+", "", line).strip()
Unnumbered(line) ==
    IF NumberingEnd(line) # 0 THEN Strip(From(line, NumberingEnd(line))) ELSE Strip(line)

\* Line 310: re.search(r"[A-Z][A-Z\s&]+\s*[—\-|]\s*", line)
looks_like_project_header(line) ==
    \E p \in DOMAIN line :
        LET r == RunEnd(line, p + 1, UpperSet \cup SpaceSet \cup {"&"})
        IN  line[p] \in UpperSet /\ r > p + 1 /\ r <= Len(line) /\ line[r] \in NameSeparators

is_strong_project(line) ==
    /\ ContainsAny(Lower(line), BUILDING_TYPES)
    /\ ContainsAny(Lower(line), HEADER_LOCATIONS) \/ looks_like_project_header(line)

\* Lines 287-336: the blocks; in_section, blocks and current are the
\* values of in_project_section, project_blocks and current_block when
\* line i is read
RECURSIVE ProjectBlocks(_, _, _, _, _)
ProjectBlocks(lines, i, in_section, blocks, current) ==
    LET line == lines[i]
        closed == IF Len(current) > 0 THEN Append(blocks, current) ELSE blocks
        is_project_start == NumberingEnd(line) # 0 \/ (in_section /\ is_strong_project(line))
    IN  IF i > Len(lines) THEN closed
        ELSE IF IsSectionTitle(Lower(line), ProjectTitles)
        THEN ProjectBlocks(lines, i + 1, TRUE, closed, <<>>)
        ELSE IF in_section /\ IsSectionTitle(Lower(line), OtherTitles)
        THEN ProjectBlocks(lines, i + 1, FALSE, closed, <<>>)
        ELSE IF in_section
        THEN IF is_project_start /\ Len(current) > 0
             THEN ProjectBlocks(lines, i + 1, in_section, Append(blocks, current), <<line>>)
             ELSE ProjectBlocks(lines, i + 1, in_section, blocks, Append(current, line))
        ELSE IF is_strong_project(line)
        THEN ProjectBlocks(lines, i + 1, in_section, closed, <<line>>)
        ELSE ProjectBlocks(lines, i + 1, in_section, blocks, current)

\* Lines 351-384.  The name has 2 to 25 words and none of the phrases of
\* false_positives, and the entry has a site, a role, a start of its
\* duration or a responsibility.
FALSE_POSITIVES == << <<"b","a","c","h","e","l","o","r">>, <<"m","a","s","t","e","r">>, <<"e","d","u","c","a","t","i","o","n">>, <<"c","e","r","t","i","f","i","c","a","t","i","o","n">>, <<"s","k","i","l","l">>, <<"e","x","p","e","r","i","e","n","c","e">>, <<"w","o","r","k"," ","h","i","s","t","o","r","y">>, <<"p","r","o","f","e","s","s","i","o","n","a","l">>, <<"s","u","m","m","a","r","y">>, <<"m","i","c","r","o","s","o","f","t">>, <<"a","d","o","b","e">>, <<"a","u","t","o","d","e","s","k">>, <<"s","o","f","t","w","a","r","e">>, <<"t","o","o","l","s">>, <<"s","u","p","p","o","r","t","i","n","g"," ","s","u","s","t","a","i","n","a","b","l","e">>, <<"c","m","s"," ","c","o","l","l","e","g","e">>, <<"g","r","a","d","u","a","t","e","d">> >>

\* A validation that looks at the name alone
_is_valid_project_NameOnly(project) ==
    /\ ~Unfilled(project.project_name)
    /\ WordCount(project.project_name[1]) >= 2
    /\ WordCount(project.project_name[1]) <= 25
    /\ ~ContainsAny(Lower(project.project_name[1]), FALSE_POSITIVES)

_is_valid_project(project) ==
    /\ ~Unfilled(project.project_name)
    /\ WordCount(project.project_name[1]) >= 2
    /\ WordCount(project.project_name[1]) <= 25
    /\ ~ContainsAny(Lower(project.project_name[1]), FALSE_POSITIVES)
    /\ \/ ~Unfilled(project.site_name)
       \/ ~Unfilled(project.role)
       \/ ~Unfilled(project.duration_start)
       \/ Len(project.responsibilities) > 0

\* The positions where word stands in s, letters compared without case
OccurrencesCI(s, word) == {p \in DOMAIN s : StartsAt(Lower(s), p, word)}

NoGroup == [found |-> FALSE, group |-> <<>>]

\* re.search(label \s* :? \s* ([^stop\n]+), line, re.IGNORECASE) with the
\* label at position p: after the label come white space, an optional ":"
\* and white space, and the group runs up to the next character of stop;
\* when nothing is left for the group, the pattern gives back a space or
\* the ":" and the group is that character
LabelMatchAt(line, p, label, stop) ==
    LET kwEnd == p + Len(label)
        a == RunEnd(line, kwEnd, SpaceSet)
        a2 == IF a <= Len(line) /\ line[a] = ":" THEN a + 1 ELSE a
        a3 == RunEnd(line, a2, SpaceSet)
    IN  IF a3 <= Len(line) /\ line[a3] \notin stop
        THEN [found |-> TRUE, group |-> SubSeq(line, a3, RunEndNot(line, a3, stop) - 1)]
        ELSE IF a3 > a2 THEN [found |-> TRUE, group |-> <<" ">>]
        ELSE IF a2 > a THEN [found |-> TRUE, group |-> <<":">>]
        ELSE IF a > kwEnd THEN [found |-> TRUE, group |-> <<" ">>]
        ELSE NoGroup

\* The leftmost match over the labels
LabelMatch(line, labels, stop) ==
    LET hits == {p \in DOMAIN line :
                    \E l \in DOMAIN labels :
                        StartsAt(Lower(line), p, labels[l]) /\ LabelMatchAt(line, p, labels[l], stop).found}
        p == Least(hits)
        l == CHOOSE n \in DOMAIN labels : StartsAt(Lower(line), p, labels[n])
    IN  IF hits = {} THEN NoGroup ELSE LabelMatchAt(line, p, labels[l], stop)

\* ---- project name (lines 400-434) ----

\* Pattern 1: ^([A-Z][A-Z\s&\-]+)\s*[—\-|]\s* on the cleaned line
NamePattern1(cleaned) ==
    LET r == RunEnd(cleaned, 2, UpperSet \cup SpaceSet \cup {"&", "-"})
        ends == {g \in 3..r :
                    LET q == RunEnd(cleaned, g, SpaceSet)
                    IN  q <= Len(cleaned) /\ cleaned[q] \in NameSeparators}
    IN  IF Len(cleaned) > 0 /\ cleaned[1] \in UpperSet /\ ends # {}
        THEN Some(Strip(SubSeq(cleaned, 1, Greatest(ends) - 1)))
        ELSE None

\* Pattern 2: project\s*:?\s*(.+?)(?:\s*[—\-|]\s*|$) on the cleaned line,
\* for a line that holds "project" and ":"
NamePattern2(line, cleaned) ==
    LET hits == OccurrencesCI(cleaned, <<"p","r","o","j","e","c","t">>)
        a == RunEnd(cleaned, Least(hits) + 7, SpaceSet)
        a2 == IF a <= Len(cleaned) /\ cleaned[a] = ":" THEN a + 1 ELSE a
        a3 == RunEnd(cleaned, a2, SpaceSet)
        stops == {e \in a3..Len(cleaned) :
                     \/ e = Len(cleaned)
                     \/ LET q == RunEnd(cleaned, e + 1, SpaceSet)
                        IN  q <= Len(cleaned) /\ cleaned[q] \in NameSeparators}
        potential_name == Strip(SubSeq(cleaned, a3, Least(stops)))
    IN  IF /\ Contains(Lower(line), <<"p","r","o","j","e","c","t">>)
           /\ Contains(line, <<":">>)
           /\ hits # {} /\ a3 <= Len(cleaned)
           /\ WordCount(potential_name) >= 2 /\ WordCount(potential_name) <= 15
        THEN Some(potential_name)
        ELSE None

\* Pattern 3: a building type, two capitals in a row, 3 to 20 words
NamePattern3(line, cleaned) ==
    IF /\ ContainsAny(Lower(line), BUILDING_TYPES)
       /\ \E i \in 1..(Len(cleaned) - 1) : cleaned[i] \in UpperSet /\ cleaned[i + 1] \in UpperSet
       /\ WordCount(cleaned) >= 3 /\ WordCount(cleaned) <= 20
    THEN Some(cleaned)
    ELSE None

NameOfLine(line) ==
    IF NamePattern1(Unnumbered(line)) # None THEN NamePattern1(Unnumbered(line))
    ELSE IF NamePattern2(line, Unnumbered(line)) # None THEN NamePattern2(line, Unnumbered(line))
    ELSE NamePattern3(line, Unnumbered(line))

\* The first of lines for which Of(line).found, or nothing
FirstFound(lines, Of(_), nothing) ==
    LET hits == {i \in DOMAIN lines : Of(lines[i]).found}
    IN  IF hits = {} THEN nothing ELSE Of(lines[Least(hits)])

ProjectName(block) ==
    LET named == {i \in DOMAIN Head3(block) : NameOfLine(block[i]) # None}
        cleaned_first == Unnumbered(block[1])
    IN  IF named # {} THEN NameOfLine(block[Least(named)])
        ELSE IF /\ WordCount(cleaned_first) >= 3 /\ WordCount(cleaned_first) <= 15
                /\ \E i \in DOMAIN cleaned_first : cleaned_first[i] \in UpperSet
        THEN Some(cleaned_first)
        ELSE None

\* ---- site (lines 437-470) ----

NoComma(s) == ~Contains(s, <<",">>)

\* ([^,\n]+(?:\([^)]+\))?)\s*$ matches all of rest
LocationTail(rest) ==
    /\ Len(rest) > 0 /\ rest[1] # ","
    /\ \/ NoComma(rest)
       \/ \E k \in 2..(Len(rest) - 2) :
             /\ rest[k] = "(" /\ rest[Len(rest)] = ")"
             /\ NoComma(SubSeq(rest, 1, k - 1))
             /\ ~Contains(SubSeq(rest, k + 1, Len(rest) - 1), <<")">>)

\* Pattern 2: re.search(r",\s*([^,\n]+(?:\([^)]+\))?)\s*$", line)
SitePattern2(line) ==
    LET commas == {c \in DOMAIN line :
                      line[c] = "," /\ LocationTail(From(line, RunEnd(line, c + 1, SpaceSet)))}
        potential_location == Strip(From(line, RunEnd(line, Least(commas) + 1, SpaceSet)))
    IN  IF /\ Contains(line, <<EmDash>>) \/ Contains(line, <<" ", "-", " ">>)
           /\ commas # {}
           /\ ContainsAny(Lower(potential_location), SITE_LOCATION_KEYWORDS)
        THEN [found |-> TRUE, group |-> potential_location]
        ELSE NoGroup

\* Pattern 3 for one keyword:
\* ([A-Za-z\s]+(?:,\s*)?keyword[^,\n]*(?:\([^)]+\))?) from position p
KeywordMatchAt(line, p, keyword) ==
    LET r == RunEnd(line, p, LetterSet \cup SpaceSet)
        afterComma == RunEnd(line, r + 1, SpaceSet)
        inside == {g \in (p + 1)..(r - 1) : StartsAt(Lower(line), g, keyword)}
        at == IF r > p /\ r <= Len(line) /\ line[r] = "," /\ StartsAt(Lower(line), afterComma, keyword)
              THEN afterComma
              ELSE IF inside # {} THEN Greatest(inside) ELSE 0
    IN  IF at = 0 THEN NoGroup
        ELSE [found |-> TRUE,
              group |-> SubSeq(line, p, RunEndNot(line, at + Len(keyword), {",", "\n"}) - 1)]

KeywordMatch(line, keyword) ==
    LET hits == {p \in DOMAIN line : KeywordMatchAt(line, p, keyword).found}
    IN  IF hits = {} THEN NoGroup ELSE KeywordMatchAt(line, Least(hits), keyword)

SitePattern3(line) ==
    LET hits == {k \in DOMAIN SITE_LOCATION_KEYWORDS :
                    /\ Contains(Lower(line), SITE_LOCATION_KEYWORDS[k])
                    /\ KeywordMatch(line, SITE_LOCATION_KEYWORDS[k]).found}
    IN  IF hits = {} THEN NoGroup
        ELSE [found |-> TRUE,
              group |-> Strip(KeywordMatch(line, SITE_LOCATION_KEYWORDS[Least(hits)]).group)]

SiteLabels == << <<"l","o","c","a","t","i","o","n">>, <<"s","i","t","e">> >>

\* What a line gives for site_name when the loop breaks at it
SiteOfLine(line) ==
    LET labelled == LabelMatch(line, SiteLabels, {"\n"})
    IN  IF labelled.found THEN [found |-> TRUE, group |-> Strip(labelled.group)]
        ELSE IF SitePattern2(line).found THEN SitePattern2(line)
        ELSE SitePattern3(line)

ProjectSite(block) ==
    LET site == FirstFound(block, SiteOfLine, NoGroup)
    IN  IF site.found THEN Some(site.group) ELSE None

\* ---- role (lines 473-505) ----

RoleLabels == << <<"r","o","l","e">>, <<"p","o","s","i","t","i","o","n">> >>
DescriptionVerbs == << <<"d","e","v","e","l","o","p","e","d">>, <<"m","a","n","a","g","e","d">>, <<"c","r","e","a","t","e","d">>, <<"p","e","r","f","o","r","m","e","d">>, <<"p","r","o","d","u","c","e","d">> >>
RoleExcluded == << <<"h","o","t","e","l">>, <<"t","o","w","e","r">>, <<"b","u","i","l","d","i","n","g">>, <<"m","a","l","l">> >>

\* Pattern 1: a "role" or "position" label with 2 to 7 words after it
RolePattern1(line) ==
    LET labelled == LabelMatch(line, RoleLabels, {",", "|", "\n"})
        potential_role == Strip(labelled.group)
    IN  IF labelled.found /\ WordCount(potential_role) >= 2 /\ WordCount(potential_role) <= 7
        THEN [found |-> TRUE, group |-> potential_role]
        ELSE NoGroup

\* Pattern 2: a short line that holds a role keyword and is neither a
\* description nor a company or a building
RolePattern2(line) ==
    IF /\ ContainsAny(Lower(line), ROLE_KEYWORDS)
       /\ WordCount(line) >= 2 /\ WordCount(line) <= 7
       /\ ~(Len(line) >= 2 /\ line[1] \in {"-", BulletChar, "*", "e"} /\ line[2] \in SpaceSet)
       /\ \A v \in DOMAIN DescriptionVerbs : ~StartsAt(Lower(line), 1, DescriptionVerbs[v])
       /\ ~ContainsAny(Lower(line), COMPANY_KEYWORDS)
       /\ ~ContainsAny(Lower(line), RoleExcluded)
    THEN [found |-> TRUE, group |-> Strip(line)]
    ELSE NoGroup

RoleOfLine(line) == IF RolePattern1(line).found THEN RolePattern1(line) ELSE RolePattern2(line)

\* [A-Z][a-z]+ at position i: the position after it, or 0
CapWordEnd(s, i) ==
    IF i + 1 <= Len(s) /\ s[i] \in UpperSet /\ s[i + 1] \in LowerSet
    THEN RunEnd(s, i + 1, LowerSet) ELSE 0

\* (?:\s+[A-Z][a-z]+){0,more} from position e: the position after it
RECURSIVE CapWordsEnd(_, _, _)
CapWordsEnd(s, e, more) ==
    LET w == RunEnd(s, e, SpaceSet)
    IN  IF more > 0 /\ w > e /\ CapWordEnd(s, w) # 0
        THEN CapWordsEnd(s, CapWordEnd(s, w), more - 1)
        ELSE e

\* (?:as|role of)\s+([A-Z][a-z]+(?:\s+[A-Z][a-z]+){1,4}) with the phrase at p
AsMatchAt(line, p) ==
    LET phrase == IF StartsAt(line, p, <<"a","s">>) THEN 2
                  ELSE IF StartsAt(line, p, <<"r","o","l","e"," ","o","f">>) THEN 7 ELSE 0
        w == RunEnd(line, p + phrase, SpaceSet)
        first == CapWordEnd(line, w)
        last == CapWordsEnd(line, first, 4)
    IN  IF phrase > 0 /\ w > p + phrase /\ first # 0 /\ last > first
        THEN [found |-> TRUE, group |-> SubSeq(line, w, last - 1)]
        ELSE NoGroup

\* Lines 500-505: the leftmost match of the line, taken when it holds a
\* role keyword
RoleInferred(line) ==
    LET hits == {p \in DOMAIN line : AsMatchAt(line, p).found}
        potential_role == Strip(AsMatchAt(line, Least(hits)).group)
    IN  IF hits # {} /\ ContainsAny(Lower(potential_role), ROLE_KEYWORDS)
        THEN [found |-> TRUE, group |-> potential_role]
        ELSE NoGroup

ProjectRole(block) ==
    LET explicit == FirstFound(block, RoleOfLine, NoGroup)
        inferred == FirstFound(block, RoleInferred, NoGroup)
    IN  IF explicit.found THEN Some(explicit.group)
        ELSE IF inferred.found THEN Some(inferred.group)
        ELSE None

\* ---- duration (lines 508-540) ----

NoDuration == [found |-> FALSE, start |-> None, end |-> None]

\* 20\d{2} at position i
Year20At(s, i) ==
    i + 3 <= Len(s) /\ s[i] = "2" /\ s[i + 1] = "0" /\ s[i + 2] \in DigitSet /\ s[i + 3] \in DigitSet

\* (20\d{2}|present|current) at position i, letters without case: the
\* position after it, or 0
YearOrPresentEnd(s, i) ==
    IF Year20At(s, i) THEN i + 4
    ELSE IF StartsAt(Lower(s), i, <<"p","r","e","s","e","n","t">>) THEN i + 7
    ELSE IF StartsAt(Lower(s), i, <<"c","u","r","r","e","n","t">>) THEN i + 7
    ELSE 0

\* \s*[-] with the en and em dash\s*(20\d{2}|present|current) from position i: where the second
\* group starts, or 0
RangeTail(s, i) ==
    LET a == RunEnd(s, i, SpaceSet)
        b == RunEnd(s, a + 1, SpaceSet)
    IN  IF a <= Len(s) /\ s[a] \in YearSeparators /\ YearOrPresentEnd(s, b) # 0 THEN b ELSE 0

\* Pattern 2: \b(20\d{2})\s*[-] with the en and em dash\s*(20\d{2}|present|current)\b
YearRange(line) ==
    LET hits == {p \in DOMAIN line :
                    /\ WordBoundary(line, p) /\ Year20At(line, p)
                    /\ RangeTail(line, p + 4) # 0
                    /\ WordBoundary(line, YearOrPresentEnd(line, RangeTail(line, p + 4)))}
        p == Least(hits)
        b == RangeTail(line, p + 4)
    IN  IF hits = {} THEN NoDuration
        ELSE [found |-> TRUE, start |-> Some(SubSeq(line, p, p + 3)),
              end |-> Some(SubSeq(line, b, YearOrPresentEnd(line, b) - 1))]

\* Pattern 3: a "duration" label and a year, or a range of years, after it
DurationLabels == << <<"d","u","r","a","t","i","o","n">> >>

\* (20\d{2})(?:\s*[-to]\s*(20\d{2}|present|current))? at position p of the
\* text, b being where the second group starts, or 0
YearsAt(duration_text, p, b) ==
    [found |-> TRUE, start |-> Some(SubSeq(duration_text, p, p + 3)),
     end |-> IF b = 0 THEN None
             ELSE Some(SubSeq(duration_text, b, YearOrPresentEnd(duration_text, b) - 1))]

\* The leftmost year of the text after the label
YearsIn(duration_text, hits) ==
    IF hits = {} THEN NoDuration
    ELSE YearsAt(duration_text, Least(hits), RangeTail(duration_text, Least(hits) + 4))

YearsOfLabel(labelled) ==
    IF ~labelled.found THEN NoDuration
    ELSE YearsIn(Strip(labelled.group),
                 {p \in DOMAIN Strip(labelled.group) : Year20At(Strip(labelled.group), p)})

DurationLabel(line) == YearsOfLabel(LabelMatch(line, DurationLabels, {"\n"}))

\* Lines 510-514
DatedDuration(m) == [found |-> m.found, start |-> Some(m.group1), end |-> Some(m.group3)]

DurationOfLine(line) ==
    IF date_search(line).found THEN DatedDuration(date_search(line))
    ELSE IF YearRange(line).found THEN YearRange(line)
    ELSE DurationLabel(line)

\* Lines 535-540: \b(20\d{2})\b in one of the first five lines
SingleYear(line) ==
    LET hits == {p \in DOMAIN line :
                    WordBoundary(line, p) /\ Year20At(line, p) /\ WordBoundary(line, p + 4)}
    IN  IF hits = {} THEN NoDuration
        ELSE [found |-> TRUE, start |-> Some(SubSeq(line, Least(hits), Least(hits) + 3)), end |-> None]

ProjectDuration(block) ==
    LET ranged == FirstFound(block, DurationOfLine, NoDuration)
    IN  IF ranged.found THEN ranged ELSE FirstFound(Prefix(block, 5), SingleYear, NoDuration)

\* ---- responsibilities (lines 543-574) ----

RESPONSIBILITY_KEYWORDS == << <<"r","e","s","p","o","n","s","i","b","l","e">>, <<"d","e","v","e","l","o","p","e","d">>, <<"m","a","n","a","g","e","d">>, <<"c","o","o","r","d","i","n","a","t","e","d">>, <<"d","e","s","i","g","n","e","d">>, <<"c","r","e","a","t","e","d">>, <<"i","m","p","l","e","m","e","n","t","e","d">>, <<"e","x","e","c","u","t","e","d">>, <<"d","e","l","i","v","e","r","e","d">>, <<"l","e","d">>, <<"p","e","r","f","o","r","m","e","d">> >>

\* Lines 550-552: the line without its bullet, "e " bullet and numbering
Unbulleted(line) ==
    LET dashed == IF Len(line) > 0 /\ line[1] \in {"-", BulletChar, "*"}
                  THEN Strip(From(line, RunEnd(line, 2, SpaceSet))) ELSE Strip(line)
        lettered == IF Len(dashed) >= 2 /\ dashed[1] = "e" /\ dashed[2] \in SpaceSet
                    THEN Strip(From(dashed, RunEnd(dashed, 2, SpaceSet))) ELSE dashed
    IN  Unnumbered(lettered)

IsResponsibility(line, project_name, site_name, role) ==
    /\ Unfilled(project_name) \/ ~Contains(line, project_name[1])
    /\ Some(line) # site_name
    /\ Some(line) # role
    /\ ~date_search(line).found
    /\ ~(ContainsAny(Lower(line), Prefix(BUILDING_TYPES, 6)) /\ WordCount(line) < 8)
    /\ ContainsAny(Lower(line), RESPONSIBILITY_KEYWORDS) \/ WordCount(Unbulleted(line)) >= 8

RECURSIVE Responsibilities(_, _, _, _)
Responsibilities(block, project_name, site_name, role) ==
    IF Len(block) = 0 THEN <<>>
    ELSE (IF IsResponsibility(block[1], project_name, site_name, role) THEN <<Unbulleted(block[1])>> ELSE <<>>)
         \o Responsibilities(Tail(block), project_name, site_name, role)

\* Lines 386-576.  The name, site, role and duration are found first (the
\* set of one record), the responsibilities are read against them.
_parse_project_block(block) ==
    TheOne({[project_name |-> f.project_name,
             site_name |-> f.site_name,
             role |-> f.role,
             responsibilities |-> Responsibilities(block, f.project_name, f.site_name, f.role),
             duration_start |-> f.duration.start,
             duration_end |-> f.duration.end] :
                f \in {[project_name |-> ProjectName(block),
                        site_name |-> ProjectSite(block),
                        role |-> ProjectRole(block),
                        duration |-> ProjectDuration(block)]}})

\* Lines 338-349: the parsed blocks that pass the validation
ParsedBlocks(lines) ==
    TheOne({[b \in DOMAIN blocks |-> _parse_project_block(blocks[b])] :
               blocks \in {ProjectBlocks(lines, 1, FALSE, <<>>, <<>>)}})

_extract_projects(lines) == SelectSeq(ParsedBlocks(lines), _is_valid_project)

----------------------------------------------------------------------------
(* ATSParser.parse and the texts it is run on *)

\* Lines 71-94, for ATSParser(): the dictionaries are get_skills_dict and
\* get_tools_dict.  text_lines is text.split("\n").  The call raises when
\* a dictionary pattern does not compile.
parse(text_lines, text, build, seed) ==
    TheOne({IF t.skills.status = "raised" \/ t.tools.status = "raised"
            THEN [status |-> "raised", val |-> <<>>]
            ELSE [status |-> "returned",
                  val |-> [name |-> _extract_name(t.lines),
                           email |-> _extract_email(text),
                           phone |-> _extract_phone(text),
                           linkedin |-> _extract_linkedin(text),
                           portfolio_urls |-> _extract_urls(text),
                           summary |-> _extract_summary(t.lines),
                           experience |-> _extract_experience(t.lines),
                           education |-> _extract_education(t.lines),
                           skills |-> t.skills.terms,
                           tools |-> t.tools.terms,
                           projects |-> _extract_projects(t.lines),
                           certifications |-> _extract_certifications(t.lines),
                           discipline |-> _detect_discipline(text),
                           position |-> _detect_position(t.lines)]] :
               t \in {[lines |-> _clean_lines(text_lines),
                       skills |-> ATS_extract_terms(get_skills_dict, text, build, seed),
                       tools |-> ATS_extract_terms(get_tools_dict, text, build, seed)]}})

\* The texts: a work history, a project section, a profile with contacts
\* and dictionary terms, and a text in which nothing matches
cv_experience ==
    << <<<<"J","o","h","n">>, <<"S","m","i","t","h">>>>,
       <<<<"B","I","M">>, <<"E","n","g","i","n","e","e","r">>, <<"|">>, <<"A","c","m","e">>, <<"L","L","C">>, <<"2","0","1","9">>, <<"-">>, <<"2","0","2","1">>>>,
       <<<<"S","e","n","i","o","r">>, <<"D","e","s","i","g","n","e","r">>>>,
       <<<<"O","m","e","g","a">>, <<"C","o","n","s","u","l","t","a","n","t","s">>>>,
       <<<<"S","i","t","e">>, <<"S","u","p","e","r","v","i","s","o","r">>, <<"|">>, <<"D","e","l","t","a">>, <<"C","o","n","t","r","a","c","t","i","n","g">>>>,
       <<<<"J","a","n">>, <<"2","0","1","5">>, <<"-">>, <<"P","r","e","s","e","n","t">>>>,
       <<<<"L","e","a","d">>, <<"E","n","g","i","n","e","e","r">>>>,
       <<<<"J","u","n","i","o","r">>, <<"A","r","c","h","i","t","e","c","t">>, <<"a","t">>, <<"G","a","m","m","a">>, <<"L","L","C">>>> >>
cv_projects ==
    << <<<<"P","r","o","j","e","c","t","s">>>>,
       <<<<"R","i","y","a","d","h">>, <<"M","e","t","r","o">>, <<"S","t","a","t","i","o","n">>, <<"ndash">>, <<"P","h","a","s","e">>, <<"2">>>>,
       <<<<"B","I","M">>, <<"E","n","g","i","n","e","e","r">>>>,
       <<<<"J","a","n">>, <<"2","0","1","9">>, <<"-">>, <<"D","e","c">>, <<"2","0","2","1">>>>,
       <<<<"1",".">>, <<"M","i","c","r","o","s","o","f","t">>, <<"O","f","f","i","c","e">>, <<"C","e","r","t","i","f","i","c","a","t","i","o","n">>>>,
       <<<<"R","o","l","e",":">>, <<"D","o","c","u","m","e","n","t">>, <<"C","o","n","t","r","o","l","l","e","r">>>>,
       <<<<"2",".">>, <<"G","r","a","n","d">>, <<"P","l","a","z","a">>, <<"F","i","t","o","u","t">>>>,
       <<<<"E","d","u","c","a","t","i","o","n">>>> >>
cv_profile ==
    << <<<<"A","n","n">>, <<"L","e","e">>>>,
       <<<<"E","m","a","i","l",":">>, <<"a","n","n","@","e","x","a","m","p","l","e",".","c","o","m">>>>,
       <<<<"P","h","o","n","e",":">>, <<"+","9","7","1">>, <<"5","0">>, <<"1","2","3">>, <<"4","5","6","7">>>>,
       <<<<"h","t","t","p","s",":","/","/","w","w","w",".","l","i","n","k","e","d","i","n",".","c","o","m","/","i","n","/","a","n","n">>>>,
       <<<<"B","a","c","h","e","l","o","r">>, <<"o","f">>, <<"A","r","c","h","i","t","e","c","t","u","r","e">>, <<"2","0","1","2">>>>,
       <<<<"R","e","v","i","t">>, <<"C","e","r","t","i","f","i","e","d">>, <<"P","r","o","f","e","s","s","i","o","n","a","l">>>>,
       <<<<"S","k","i","l","l","e","d">>, <<"i","n">>, <<"R","e","v","i","t">>, <<"a","n","d">>, <<"P","y","t","h","o","n">>>> >>
cv_nothing ==
    << <<>>,
       <<<<"-","-","-">>, <<"P","a","g","e">>, <<"1">>, <<"-","-","-">>>>,
       <<<<"P","a","g","e">>, <<"2">>>>,
       <<<<"l","o","r","e","m">>, <<"i","p","s","u","m">>>> >>

\* The lines of a text as the code sees them: text.split("\n")
SplitLines(cv) == [i \in DOMAIN cv |-> LineStr(cv[i])]

\* cv without its line i
Without(cv, i) == SubSeq(cv, 1, i - 1) \o SubSeq(cv, i + 1, Len(cv))

\* Every text and every text with one of its lines left out
CVTexts ==
    UNION {{cv} \cup {Without(cv, i) : i \in DOMAIN cv} : cv \in {cv_experience, cv_projects, cv_profile, cv_nothing}}

NotParsed == [call |-> "none", status |-> "none", val |-> <<>>]

ParseInit ==
    /\ cvLines \in CVTexts
    /\ termDict = get_skills_dict
    /\ pyBuild \in PyBuilds
    /\ hashSeed = "h1"
    /\ extracted = NotExtracted
    /\ parsed = NotParsed
    /\ candidate = BaseCandidate /\ jd = BaseJob
    /\ result = NoMatchResult("none") /\ prevResult = NoMatchResult("none")
    /\ IdleJD /\ IdleMatch /\ IdleGemini /\ IdleEval /\ IdleUpload

\* ATSParser()._extract_experience(self._clean_lines(text.split("\n")))
ExtractExperience ==
    /\ \E lines \in {_clean_lines(SplitLines(cvLines))} :
          parsed' = [call |-> "experience", status |-> "returned", val |-> _extract_experience(lines)]
    /\ UNCHANGED <<cvLines, termDict, pyBuild, extracted>>
    /\ UNCHANGED <<scoreVars, jdVars, matchVars, geminiVars, evalVars, uploadVars>>

\* ATSParser()._extract_projects(self._clean_lines(text.split("\n")))
ExtractProjects ==
    /\ \E lines \in {_clean_lines(SplitLines(cvLines))} :
          parsed' = [call |-> "projects", status |-> "returned", val |-> _extract_projects(lines)]
    /\ UNCHANGED <<cvLines, termDict, pyBuild, extracted>>
    /\ UNCHANGED <<scoreVars, jdVars, matchVars, geminiVars, evalVars, uploadVars>>

\* ATSParser().parse(text)
ParseCV ==
    /\ \E text \in {TextStr(cvLines)} :
          parsed' = [call |-> "parse"] @@ parse(SplitLines(cvLines), text, pyBuild, hashSeed)
    /\ UNCHANGED <<cvLines, termDict, pyBuild, extracted>>
    /\ UNCHANGED <<scoreVars, jdVars, matchVars, geminiVars, evalVars, uploadVars>>

ParseNext == ExtractExperience \/ ExtractProjects \/ ParseCV

ParseSpec == ParseInit /\ [][ParseNext]_vars
----------------------------------------------------------------------------
(* ProfileEvaluator (app/services/profile_evaluator.py).                   *)
(*                                                                         *)
(* A datetime is [kind, year, month]: the day and the time of day play no  *)
(* part in the arithmetic.  Years of experience, a float rounded to one    *)
(* decimal, are counted in tenths of a year (22 is 2.2).                   *)

GCC_KEYWORDS ==
    << <<"u","a","e">>, <<"d","u","b","a","i">>, <<"a","b","u"," ","d","h","a","b","i">>,
       <<"s","h","a","r","j","a","h">>, <<"a","j","m","a","n">>,
       <<"r","a","s"," ","a","l"," ","k","h","a","i","m","a","h">>, <<"f","u","j","a","i","r","a","h">>,
       <<"s","a","u","d","i">>, <<"k","s","a">>, <<"r","i","y","a","d","h">>, <<"j","e","d","d","a","h">>,
       <<"m","e","c","c","a">>, <<"m","e","d","i","n","a">>, <<"d","a","m","m","a","m">>,
       <<"n","e","o","m">>, <<"q","a","t","a","r">>, <<"d","o","h","a">>, <<"l","u","s","a","i","l">>,
       <<"o","m","a","n">>, <<"m","u","s","c","a","t">>, <<"s","a","l","a","l","a","h">>,
       <<"b","a","h","r","a","i","n">>, <<"m","a","n","a","m","a">>, <<"k","u","w","a","i","t">>,
       <<"k","u","w","a","i","t"," ","c","i","t","y">>, <<"g","c","c">> >>

MNC_COMPANIES ==
    << <<"a","e","c","o","m">>, <<"w","s","p">>, <<"j","a","c","o","b","s">>, <<"a","t","k","i","n","s">>,
       <<"s","n","c"," ","l","a","v","a","l","i","n">>, <<"s","n","c","-","l","a","v","a","l","i","n">>,
       <<"b","e","c","h","t","e","l">>, <<"f","l","u","o","r">>, <<"k","b","r">>,
       <<"w","o","r","l","e","y">>, <<"p","a","r","s","o","n","s">>, <<"a","r","c","a","d","i","s">>,
       <<"s","t","a","n","t","e","c">>, <<"a","r","u","p">>,
       <<"m","o","t","t"," ","m","a","c","d","o","n","a","l","d">>, <<"h","d","r">>,
       <<"t","u","r","n","e","r">>, <<"s","k","a","n","s","k","a">>, <<"v","i","n","c","i">>,
       <<"b","o","u","y","g","u","e","s">>,
       <<"s","a","m","s","u","n","g"," ","e","n","g","i","n","e","e","r","i","n","g">>,
       <<"h","y","u","n","d","a","i"," ","e","n","g","i","n","e","e","r","i","n","g">>,
       <<"d","a","e","l","i","m">>, <<"l","a","r","s","e","n"," ","&"," ","t","o","u","b","r","o">>,
       <<"l","&","t">>, <<"t","a","t","a">>,
       <<"s","h","a","p","o","o","r","j","i"," ","p","a","l","l","o","n","j","i">>,
       <<"d","a","r"," ","a","l"," ","h","a","n","d","a","s","a","h">>,
       <<"k","h","a","t","i","b"," ","&"," ","a","l","a","m","i">>,
       <<"c","o","n","s","o","l","i","d","a","t","e","d"," ","c","o","n","t","r","a","c","t","o","r","s">>,
       <<"a","r","a","b","t","e","c">>, <<"a","l"," ","h","a","b","t","o","o","r">>,
       <<"e","m","a","a","r">>, <<"n","a","k","h","e","e","l">>, <<"a","l","d","a","r">>,
       <<"s","a","u","d","i"," ","b","i","n","l","a","d","i","n">>, <<"a","l"," ","r","a","j","h","i">>,
       <<"a","l"," ","b","a","w","a","n","i">> >>

KNOWN_SOFTWARE ==
    << <<"r","e","v","i","t">>, <<"a","u","t","o","c","a","d">>,
       <<"n","a","v","i","s","w","o","r","k","s">>, <<"t","e","k","l","a">>, <<"e","t","a","b","s">>,
       <<"s","a","p","2","0","0","0">>, <<"s","t","a","a","d">>, <<"p","r","i","m","a","v","e","r","a">>,
       <<"m","s"," ","p","r","o","j","e","c","t">>, <<"p","r","o","c","o","r","e">>,
       <<"b","l","u","e","b","e","a","m">>, <<"s","k","e","t","c","h","u","p">>,
       <<"c","i","v","i","l"," ","3","d">>, <<"i","n","f","r","a","w","o","r","k","s">>,
       <<"r","o","b","o","t"," ","s","t","r","u","c","t","u","r","a","l">>, <<"s","a","f","e">>,
       <<"d","y","n","a","m","o">>, <<"b","i","m"," ","3","6","0">>, <<"a","c","c">>,
       <<"s","o","l","i","b","r","i">>, <<"b","e","n","t","l","e","y">>,
       <<"m","i","c","r","o","s","t","a","t","i","o","n">>, <<"a","r","c","h","i","c","a","d">>,
       <<"r","h","i","n","o">>, <<"g","r","a","s","s","h","o","p","p","e","r">>,
       <<"e","n","s","c","a","p","e">>, <<"l","u","m","i","o","n">>, <<"m","a","t","l","a","b">>,
       <<"p","y","t","h","o","n">>, <<"e","x","c","e","l">>, <<"p","o","w","e","r","b","i">>,
       <<"p","o","w","e","r"," ","b","i">> >>

\* The month names the third pattern of _parse_date accepts, in lower case
MonthForms ==
    << <<"j","a","n">>, <<"j","a","n","u","a","r","y">>, <<"f","e","b">>,
       <<"f","e","b","r","u","a","r","y">>, <<"m","a","r">>, <<"m","a","r","c","h">>, <<"a","p","r">>,
       <<"a","p","r","i","l">>, <<"m","a","y">>, <<"j","u","n">>, <<"j","u","n","e">>, <<"j","u","l">>,
       <<"j","u","l","y">>, <<"a","u","g">>, <<"a","u","g","u","s","t">>, <<"s","e","p">>,
       <<"s","e","p","t">>, <<"s","e","p","t","e","m","b","e","r">>, <<"o","c","t">>,
       <<"o","c","t","o","b","e","r">>, <<"n","o","v">>, <<"n","o","v","e","m","b","e","r">>,
       <<"d","e","c">>, <<"d","e","c","e","m","b","e","r">> >>

\* int(c) for a digit, and int(s) for a str of digits
DigitValue == [c \in DigitSet |-> (CHOOSE i \in DOMAIN Digits : Digits[i] = c) - 1]

RECURSIVE IntOf(_)
IntOf(s) ==
    IF Len(s) = 0 THEN 0
    ELSE 10 * IntOf(SubSeq(s, 1, Len(s) - 1)) + DigitValue[s[Len(s)]]

AllDigits(s) == \A i \in DOMAIN s : s[i] \in DigitSet

NoDatetime == [kind |-> "none", year |-> 0, month |-> 0]
DatetimeRaised == [kind |-> "raised", year |-> 0, month |-> 0]

\* datetime(year, month, 1): ValueError when the year is not in 1..9999 or
\* the month is not in 1..12
datetime(year, month) ==
    IF year >= 1 /\ year <= 9999 /\ month >= 1 /\ month <= 12
    THEN [kind |-> "date", year |-> year, month |-> month]
    ELSE DatetimeRaised

\* Line 254: ^(\d{4})-(\d{1,2})$
IsYearMonth(s) ==
    /\ Len(s) >= 6 /\ Len(s) <= 7
    /\ AllDigits(SubSeq(s, 1, 4)) /\ s[5] = "-" /\ AllDigits(From(s, 6))

\* Lines 259-265: ^(Jan(?:uary)?|...|Dec(?:ember)?)\s+(\d{4})$ with
\* re.IGNORECASE.  word_end is the position after the first word.
IsMonthYearAt(s, word_end) ==
    /\ \E i \in DOMAIN MonthForms : MonthForms[i] = Lower(SubSeq(s, 1, word_end - 1))
    /\ RunEnd(s, word_end, SpaceSet) > word_end
    /\ Len(s) - RunEnd(s, word_end, SpaceSet) = 3
    /\ AllDigits(From(s, RunEnd(s, word_end, SpaceSet)))

IsMonthYear(s) == IsMonthYearAt(s, RunEndNot(s, 1, SpaceSet))

\* Lines 267-272: month_map.get(match.group(1)[:3].lower(), 1)
MonthNumber(s) ==
    CHOOSE m \in DOMAIN MonthPrefixes : Lower(MonthPrefixes[m]) = Lower(SubSeq(s, 1, 3))

\* The words that stand for the current date (line 250)
NowWords == {<<"p","r","e","s","e","n","t">>, <<"c","u","r","r","e","n","t">>, <<"n","o","w">>}

\* Lines 248-279, s being date_str.strip()
ParseStripped(s, now) ==
    IF Lower(s) \in NowWords THEN [kind |-> "date", year |-> now.year, month |-> now.month]
    ELSE IF IsYearMonth(s) THEN datetime(IntOf(SubSeq(s, 1, 4)), IntOf(From(s, 6)))
    ELSE IF IsMonthYear(s) THEN datetime(IntOf(From(s, Len(s) - 3)), MonthNumber(s))
    ELSE IF Len(s) = 4 /\ AllDigits(s) THEN datetime(IntOf(s), 1)
    ELSE NoDatetime

\* _parse_date(date_str) at the moment now
_parse_date(date_str, now) ==
    IF ~Truthy(date_str) THEN NoDatetime ELSE ParseStripped(Strip(date_str[1]), now)

\* (end.year - start.year) * 12 + (end.month - start.month)
MonthsBetween(start, end) == (end.year - start.year) * 12 + (end.month - start.month)

\* Lines 84-91 and 110-117, start and end being what _parse_date returned:
\* the months the entry adds, or that one of the two calls raised
EntryMonths(start, end, now) ==
    IF start.kind = "raised" \/ end.kind = "raised" THEN [raised |-> TRUE, months |-> 0]
    ELSE IF start.kind = "none" THEN [raised |-> FALSE, months |-> 0]
    ELSE IF end.kind = "none"
         THEN [raised |-> FALSE,
               months |-> IF MonthsBetween(start, now) > 0 THEN MonthsBetween(start, now) ELSE 0]
         ELSE [raised |-> FALSE,
               months |-> IF MonthsBetween(start, end) > 0 THEN MonthsBetween(start, end) ELSE 0]

ExperienceMonths(exp, now) ==
    EntryMonths(_parse_date(exp.start_date, now), _parse_date(exp.end_date, now), now)

RECURSIVE SumMonths(_)
SumMonths(added) ==
    IF Len(added) = 0 THEN 0 ELSE added[1].months + SumMonths(Tail(added))

\* What a loop over added leaves: the call raised in one of its passes, or
\* the months add up
Accumulate(added) ==
    IF \E i \in DOMAIN added : added[i].raised THEN [status |-> "raised", months |-> 0]
    ELSE [status |-> "returned", months |-> SumMonths(added)]

\* round(months / 12, 1) in tenths of a year: the nearest tenth, the even
\* one when months / 12 lies halfway (0.25, 0.75, 1.25 ... are floats)
RoundHalfEven(n, d) ==
    IF 2 * (n % d) < d THEN n \div d
    ELSE IF 2 * (n % d) > d THEN (n \div d) + 1
    ELSE IF (n \div d) % 2 = 0 THEN n \div d ELSE (n \div d) + 1

YearsOf(months) == RoundHalfEven(10 * months, 12)

\* Lines 76-93: [status, months, years]; months is total_months
calculate_total_experience(experience_list, now) ==
    TheOne({[status |-> t.status, months |-> t.months, years |-> YearsOf(t.months)] :
               t \in {Accumulate([i \in DOMAIN experience_list |->
                                     ExperienceMonths(experience_list[i], now)])}})

\* Lines 281-288
_has_gcc_reference(exp) ==
    ContainsAny(Lower(JoinWith(<<OrEmpty(exp.company), OrEmpty(exp.job_title),
                                 JoinWith(OrEmpty(exp.description), <<" ">>)>>, <<" ">>)),
                GCC_KEYWORDS)

\* Lines 108-117: a work entry in the loop of calculate_gcc_experience
GccExperienceMonths(exp, now) ==
    IF _has_gcc_reference(exp) THEN ExperienceMonths(exp, now)
    ELSE [raised |-> FALSE, months |-> 0]

\* Lines 121-132: a project in the loop of calculate_gcc_experience
ProjectDates(start, end) ==
    IF start.kind = "raised" \/ end.kind = "raised" THEN [raised |-> TRUE, months |-> 0]
    ELSE IF start.kind = "date" /\ end.kind = "date" /\ MonthsBetween(start, end) > 0
         THEN [raised |-> FALSE, months |-> MonthsBetween(start, end)]
         ELSE [raised |-> FALSE, months |-> 0]

GccProjectMonths(proj, now) ==
    IF ContainsAny(Lower(JoinWith(<<OrEmpty(proj.site_name), OrEmpty(proj.project_name),
                                    JoinWith(OrEmpty(proj.responsibilities), <<" ">>)>>, <<" ">>)),
                   GCC_KEYWORDS)
    THEN ProjectDates(_parse_date(proj.duration_start, now), _parse_date(proj.duration_end, now))
    ELSE [raised |-> FALSE, months |-> 0]

\* Lines 98-131: [status, months, years]; months is gcc_months
calculate_gcc_experience(experience_list, projects_list, now) ==
    TheOne({[status |-> t.status, months |-> t.months, years |-> YearsOf(t.months)] :
               t \in {Accumulate([i \in DOMAIN experience_list |->
                                     GccExperienceMonths(experience_list[i], now)]
                                 \o [i \in DOMAIN projects_list |->
                                        GccProjectMonths(projects_list[i], now)])}})

\* Lines 136-146, total_years in tenths
determine_seniority(total_years) ==
    IF total_years < 20 THEN "Junior"
    ELSE IF total_years < 50 THEN "Mid-Level"
    ELSE IF total_years < 80 THEN "Senior"
    ELSE IF total_years < 120 THEN "Lead"
    ELSE "Manager"

\* Lines 175-180
detect_mnc_experience(experience_list) ==
    \E i \in DOMAIN experience_list :
        ContainsAny(Lower(OrEmpty(experience_list[i].company)), MNC_COMPANIES)

\* Lines 151-170: the keys of software_found, in the order of KNOWN_SOFTWARE
calculate_software_experience(skills) ==
    SelectSeq(KNOWN_SOFTWARE, LAMBDA sw : \E s \in skills : Contains(s, sw))

\* Lines 49-71: evaluate(extracted_data) at the moment now
Evaluated(total, gcc, experience, all_skills) ==
    IF total.status = "raised" \/ gcc.status = "raised"
    THEN [status |-> "raised", total_months |-> 0, gcc_months |-> 0,
          total_experience_years |-> 0, gcc_experience_years |-> 0,
          seniority_level |-> "", mnc_experience |-> FALSE, software_experience |-> <<>>]
    ELSE [status |-> "returned", total_months |-> total.months, gcc_months |-> gcc.months,
          total_experience_years |-> total.years, gcc_experience_years |-> gcc.years,
          seniority_level |-> determine_seniority(total.years),
          mnc_experience |-> detect_mnc_experience(experience),
          software_experience |-> calculate_software_experience(all_skills)]

evaluate(extracted_data, now) ==
    Evaluated(calculate_total_experience(OrEmpty(extracted_data.experience), now),
              calculate_gcc_experience(OrEmpty(extracted_data.experience),
                                       OrEmpty(extracted_data.projects), now),
              OrEmpty(extracted_data.experience),
              Range(LowerAll(OrEmpty(extracted_data.skills) \o OrEmpty(extracted_data.tools))))

----------------------------------------------------------------------------
(* The evaluator at work: extracted data, the current date and one call    *)

date_2020_01 == <<"2","0","2","0","-","0","1">>
date_2022_03 == <<"2","0","2","2","-","0","3">>
date_2019_06 == <<"2","0","1","9","-","0","6">>
date_Jan_2021 == <<"J","a","n"," ","2","0","2","1">>
date_2020_13 == <<"2","0","2","0","-","1","3">>
date_Present == <<"P","r","e","s","e","n","t">>
date_ongoing == <<"o","n","g","o","i","n","g">>
date_soon == <<"s","o","o","n">>
str_Acme == <<"A","c","m","e">>
str_Acme_Dubai == <<"A","c","m","e"," ","D","u","b","a","i">>
str_AECOM == <<"A","E","C","O","M">>
str_Dubai_Creek_Tower == <<"D","u","b","a","i"," ","C","r","e","e","k"," ","T","o","w","e","r">>
str_City_Library == <<"C","i","t","y"," ","L","i","b","r","a","r","y">>

\* Start and end dates as the extraction leaves them: missing, in one of
\* the formats of _parse_date, a word for the current date, another word,
\* and a month that does not exist
StartDates == {None, Some(date_2020_01), Some(date_Jan_2021), Some(date_soon), Some(date_2020_13)}
EndDates == {None, Some(date_2022_03), Some(date_2019_06), Some(date_Present), Some(date_ongoing)}

WorkEntries ==
    [company : {None, Some(str_Acme), Some(str_Acme_Dubai)}, job_title : {None},
     description : {None}, start_date : StartDates, end_date : EndDates]

\* Entries of which the lists of several entries are made
ListedEntries ==
    {e \in WorkEntries : /\ e.company # None
                         /\ e.start_date = Some(date_2020_01)
                         /\ e.end_date \in {Some(date_2022_03), Some(date_Present)}}

ProjectEntries ==
    [site_name : {None}, project_name : {Some(str_Dubai_Creek_Tower), Some(str_City_Library)},
     responsibilities : {None}, duration_start : {None, Some(date_2020_01)},
     duration_end : {Some(date_2022_03)}]

\* extracted_data: one work entry of any kind, or a list of entries with
\* dates, beside no project or one project
EvalProfiles ==
    [experience : {Some(<<e>>) : e \in WorkEntries} \cup OptLists(ListedEntries, MaxEntries),
     projects : {None} \cup {Some(<<p>>) : p \in ProjectEntries},
     skills : {None, Some(<<str_Revit, str_autocad>>)},
     tools : {None}]

Clocks == {[year |-> 2024, month |-> 6], [year |-> 2026, month |-> 11]}

\* No call yet; at is the moment of the call (datetime.now() inside it)
NoMetrics == [call |-> "none", status |-> "none", at |-> <<>>, val |-> <<>>]

EvalInit ==
    /\ profile \in EvalProfiles
    /\ clock \in Clocks
    /\ metrics = NoMetrics
    /\ IdleScore /\ IdleJD /\ IdleMatch /\ IdleParse /\ IdleGemini /\ IdleUpload

\* evaluator.calculate_total_experience(experience)
CalculateTotalExperience ==
    /\ \E r \in {calculate_total_experience(OrEmpty(profile.experience), clock)} :
          metrics' = [call |-> "calculate_total_experience", status |-> r.status, at |-> clock,
                      val |-> [months |-> r.months, years |-> r.years]]
    /\ UNCHANGED <<profile, clock>>
    /\ UNCHANGED <<scoreVars, jdVars, matchVars, parseVars, geminiVars, uploadVars>>

\* evaluator.calculate_gcc_experience(experience, projects)
CalculateGccExperience ==
    /\ \E r \in {calculate_gcc_experience(OrEmpty(profile.experience),
                                          OrEmpty(profile.projects), clock)} :
          metrics' = [call |-> "calculate_gcc_experience", status |-> r.status, at |-> clock,
                      val |-> [months |-> r.months, years |-> r.years]]
    /\ UNCHANGED <<profile, clock>>
    /\ UNCHANGED <<scoreVars, jdVars, matchVars, parseVars, geminiVars, uploadVars>>

\* evaluator.evaluate(extracted_data)
Evaluate ==
    /\ \E r \in {evaluate(profile, clock)} :
          metrics' = [call |-> "evaluate", status |-> r.status, at |-> clock, val |-> r]
    /\ UNCHANGED <<profile, clock>>
    /\ UNCHANGED <<scoreVars, jdVars, matchVars, parseVars, geminiVars, uploadVars>>

\* Time passes between two calls
ClockAdvances ==
    /\ \E later \in Clocks :
          /\ MonthsBetween(clock, later) > 0
          /\ clock' = later
    /\ UNCHANGED <<profile, metrics>>
    /\ UNCHANGED <<scoreVars, jdVars, matchVars, parseVars, geminiVars, uploadVars>>

EvalNext == CalculateTotalExperience \/ CalculateGccExperience \/ Evaluate \/ ClockAdvances

EvalSpec == EvalInit /\ [][EvalNext]_vars

----------------------------------------------------------------------------
(* calculate_confidence (gemini_parser.py:350-366) *)

MaxItems == 4   \* most entries of a list field of the merged dictionary

\* Python min of two numbers
min(a, b) == IF a <= b THEN a ELSE b

\* Lines 350-366.  merged.get(key) of a missing key is None; a str or a
\* list is true when it is not empty.
calculate_confidence(merged) ==
    min((IF Truthy(merged.name) THEN 10 ELSE 0)
         + (IF Truthy(merged.summary) /\ Len(merged.summary[1]) > 20 THEN 15 ELSE 0)
         + (IF Len(OrEmpty(merged.experience)) > 0 THEN 25 ELSE 0)
         + (IF Len(OrEmpty(merged.experience)) >= 3 THEN 10 ELSE 0)
         + (IF Len(OrEmpty(merged.projects)) > 0 THEN 15 ELSE 0)
         + (IF Len(OrEmpty(merged.skills)) > 3 THEN 15 ELSE 0)
         + (IF Truthy(merged.education) THEN 10 ELSE 0),
         100)

str_Ann == <<"A","n","n">>
summary_20 == <<"B","I","M"," ","l","e","a","d",","," ","t","e","n"," ","y","e","a","r","s",".">>
summary_21 == <<"B","I","M"," ","l","e","a","d"," ","i","n"," ","a"," ","s","t","u","d","i","o",".">>
str_item == <<"x">>

\* item repeated n times: the entries of a list field, of which only the
\* number is read
Repeated(item, n) == [i \in 1..n |-> item]

\* A list field: missing, or a list of up to MaxItems entries
ListField == {None} \cup {Some(Repeated(str_item, n)) : n \in 0..MaxItems}

\* The merged dictionaries: each field missing, empty or filled, the summary
\* of 20 and of 21 characters
MergedProfiles ==
    [name : {None, Some(<<>>), Some(str_Ann)},
     summary : {None, Some(<<>>), Some(summary_20), Some(summary_21)},
     experience : ListField,
     projects : {None, Some(<<>>), Some(Repeated(str_item, 1))},
     skills : ListField,
     education : {None, Some(<<>>), Some(Repeated(str_item, 1))}]

ConfidenceInit ==
    /\ profile \in MergedProfiles
    /\ clock = <<>>
    /\ metrics = NoMetrics
    /\ IdleScore /\ IdleJD /\ IdleMatch /\ IdleParse /\ IdleGemini /\ IdleUpload

\* calculate_confidence(merged)
CalculateConfidence ==
    /\ metrics' = [call |-> "calculate_confidence", status |-> "returned", at |-> clock,
                   val |-> calculate_confidence(profile)]
    /\ UNCHANGED <<profile, clock>>
    /\ UNCHANGED <<scoreVars, jdVars, matchVars, parseVars, geminiVars, uploadVars>>

ConfidenceNext == CalculateConfidence

ConfidenceSpec == ConfidenceInit /\ [][ConfidenceNext]_vars

----------------------------------------------------------------------------
(* Batch upload: process_cv_batch_task (upload.py:152-201), the Celery task
   process_cv_batch (ocr_tasks.py:9-66) and OCRPipeline.process_file
   (ocr_pipeline.py:30-162).  Commits are taken to succeed. *)

MaxFiles == 3   \* most files of a batch

\* A file of the batch: its extension, and whether conversion and OCR go
\* through on its content
BatchFile(ext, readable) == [ext |-> ext, readable |-> readable]

BatchFiles ==
    {BatchFile("pdf", TRUE), BatchFile("pdf", FALSE), BatchFile("png", TRUE),
     BatchFile("png", FALSE), BatchFile("docx", TRUE), BatchFile("txt", TRUE)}

\* ocr_pipeline.py:170-192 and 194-215: any failure of the conversion or of
\* the OCR is raised again as Exception
_process_pdf(file) == IF file.readable THEN "text" ELSE "raised"
_process_image(file) == IF file.readable THEN "text" ELSE "raised"

\* OCRPipeline.extract_text, lines 56-77: every branch returns or raises.
\* Lines 79-162, which build and store the Candidate, follow those returns
\* inside extract_text and are never executed.
extract_text(file) ==
    IF file.ext = "pdf" THEN _process_pdf(file)
    ELSE IF file.ext \in {"jpg", "jpeg", "png", "tiff", "bmp"} THEN _process_image(file)
    ELSE IF file.ext \in {"doc", "docx"} THEN "text"
    ELSE "raised"

\* OCRPipeline.process_file, lines 30-54: the text is extracted, a
\* ValueError is raised again, and the body ends there: the call returns
\* None and leaves the candidates table as it was.
process_file(file, batch_id, table) ==
    IF extract_text(file) = "raised"
    THEN [status |-> "raised", value |-> None, table |-> table]
    ELSE [status |-> "returned", value |-> None, table |-> table]

\* Mutant: a file that fails marks the batch as failed
AfterFile_Atomic(row, status) ==
    IF status = "returned"
    THEN [row EXCEPT !.processed_files = @ + 1]
    ELSE [row EXCEPT !.status = "failed"]

\* upload.py:174-186 (ocr_tasks.py:32-39): the counters after
\* process_file returned or raised
AfterFile(row, status) ==
    IF status = "returned"
    THEN [row EXCEPT !.processed_files = @ + 1]
    ELSE [row EXCEPT !.failed_files = @ + 1]

\* upload_batch, lines 47-80: the batches row and the task queued for it
QueuedBatch(files) ==
    [batch_id |-> "batchA", status |-> "queued", total_files |-> Len(files),
     processed_files |-> 0, failed_files |-> 0, completed_at |-> FALSE,
     file_paths |-> files, pc |-> "queued", next |-> 1]

\* Candidates stored before the batch was uploaded, by an earlier version
\* of the pipeline or another writer
EarlierCandidates ==
    {<<>>, <<[batch_id |-> "batchB", extraction_status |-> "completed"]>>}

BatchInit ==
    /\ batch \in {QueuedBatch(files) : files \in Lists(BatchFiles, MaxFiles)}
    /\ candidates \in EarlierCandidates
    /\ matchResults = <<>> /\ tasks = <<>> /\ runLog = <<>> /\ session = <<>>
    /\ IdleScore /\ IdleJD /\ IdleParse /\ IdleGemini /\ IdleEval

BatchFrame ==
    /\ UNCHANGED <<matchResults, tasks, runLog, session>>
    /\ UNCHANGED <<scoreVars, jdVars, parseVars, geminiVars, evalVars>>

\* Lines 163-169: the batch is read and marked as processing
BeginBatch ==
    /\ batch.pc = "queued"
    /\ batch' = [batch EXCEPT !.status = "processing", !.pc = "files"]
    /\ UNCHANGED candidates
    /\ BatchFrame

\* Lines 173-186: one pass of the loop over file_paths
ProcessNextFile ==
    /\ batch.pc = "files"
    /\ batch.next <= Len(batch.file_paths)
    /\ \E r \in {process_file(batch.file_paths[batch.next], batch.batch_id, candidates)} :
          /\ candidates' = r.table
          /\ batch' = [AfterFile(batch, r.status) EXCEPT !.next = @ + 1]
    /\ BatchFrame

\* Lines 188-192: the loop is over
CompleteBatch ==
    /\ batch.pc = "files"
    /\ batch.next > Len(batch.file_paths)
    /\ batch' = [batch EXCEPT !.status = "completed", !.completed_at = TRUE, !.pc = "done"]
    /\ UNCHANGED candidates
    /\ BatchFrame

BatchNext == BeginBatch \/ ProcessNextFile \/ CompleteBatch

BatchSpec == BatchInit /\ [][BatchNext]_vars

\* matching.py:277-282 with batch_id given: the candidates run_matching_task
\* reads for the batch
CandidatesOfBatch(table, batch_id) ==
    {i \in DOMAIN table :
        table[i].extraction_status = "completed" /\ table[i].batch_id = batch_id}

----------------------------------------------------------------------------
(* Properties of the scoring specification (Spec) *)

Weights(j) == <<j.skill_weight, j.role_weight, j.tool_weight,
                j.experience_weight, j.portfolio_weight, j.quality_weight>>

WeightsValid(j) ==
    /\ \A i \in 1..6 : Weights(j)[i] \in 0..100
    /\ Weights(j)[1] + Weights(j)[2] + Weights(j)[3]
         + Weights(j)[4] + Weights(j)[5] + Weights(j)[6] = 100

InWeight(x, w) == RLe(RInt(0), x) /\ RLe(x, RInt(w))

Returned == result.status = "returned"

\* The sets and counts the statements below speak about
CandidateSkillSet == Range(LowerAll(OrEmpty(candidate.skills)))
MustHaveSet       == Range(LowerAll(jd.must_have_skills))
NiceToHaveSet     == Range(LowerAll(OrEmpty(jd.nice_to_have_skills)))
CandidateToolSet  == Range(LowerAll(OrEmpty(candidate.tools)))
RequiredToolSet   == Range(LowerAll(OrEmpty(jd.required_tools)))
CandidateText     == Lower(OrEmpty(candidate.raw_text))
RoleKeywordList   == LowerAll(OrEmpty(jd.role_keywords))
JobKeywordList    == LowerAll(OrEmpty(jd.role_keywords) \o jd.must_have_skills)
KeywordsFound     == Cardinality({i \in DOMAIN JobKeywordList :
                                    Contains(CandidateText, JobKeywordList[i])})
HasPortfolioLink  == Len(OrEmpty(candidate.portfolio_urls)) > 0
ExperienceCount   == Len(OrEmpty(candidate.experience))

\* pct/100 of w
Pct(pct, w) == R(pct * w, 100)

\* C1: for a job whose six weights are each in 0..100 and sum to 100, every
\* result match_candidate returns has each category score within
\* [0, that category's weight] and a total that is the sum of the six and
\* lies within [0, 100].
C1_ScoresWithinWeights ==
    (Returned /\ WeightsValid(jd)) =>
        /\ InWeight(result.skill_score, jd.skill_weight)
        /\ InWeight(result.role_score, jd.role_weight)
        /\ InWeight(result.tool_score, jd.tool_weight)
        /\ InWeight(result.experience_score, jd.experience_weight)
        /\ InWeight(result.portfolio_score, jd.portfolio_weight)
        /\ InWeight(result.quality_score, jd.quality_weight)
        /\ result.total_score =
              RAdd(result.skill_score,
              RAdd(result.role_score,
              RAdd(result.tool_score,
              RAdd(result.experience_score,
              RAdd(result.portfolio_score, result.quality_score)))))
        /\ InWeight(result.total_score, 100)

\* C1 witness: a returned result for a valid job where one category is at
\* its weight, another strictly inside its range and the total is below 100.
C1_Witness ==
    /\ Returned /\ WeightsValid(jd)
    /\ jd.skill_weight > 0 /\ result.skill_score = RInt(jd.skill_weight)
    /\ jd.portfolio_weight > 0
    /\ RLt(RInt(0), result.portfolio_score)
    /\ RLt(result.portfolio_score, RInt(jd.portfolio_weight))
    /\ RLt(result.total_score, RInt(100))

\* C5: scoring the same (candidate, job) pair a second time yields the same
\* outcome as the first time: scores, matched and missing lists with their
\* order, and justification.
C5_RescoreIdentical ==
    prevResult.status # "none" => result = prevResult

\* One tier of the generous curve as the statement gives it: budget for an
\* empty requirement set, 0 for no match, (base + bonus * m/n) of the
\* budget otherwise (base, bonus in hundredths; budget a rational).
GenerousTier(n, m, budget, base, bonus) ==
    IF n = 0 THEN budget
    ELSE IF m = 0 THEN RInt(0)
    ELSE RMul(R(base * n + bonus * m, 100 * n), budget)

MustHavePart ==
    GenerousTier(Cardinality(MustHaveSet),
                 Cardinality(MustHaveSet \cap CandidateSkillSet),
                 Pct(75, jd.skill_weight), 85, 15)
NiceToHavePart ==
    GenerousTier(Cardinality(NiceToHaveSet),
                 Cardinality(NiceToHaveSet \cap CandidateSkillSet),
                 Pct(25, jd.skill_weight), 90, 10)

SkillCurveHolds == result.skill_score = RAdd(MustHavePart, NiceToHavePart)

\* The worked example: must-have {revit, autocad}, candidate {revit}, weight 40
SkillExample ==
    /\ MustHaveSet = {str_revit, str_autocad}
    /\ CandidateSkillSet = {str_revit}
    /\ jd.skill_weight = 40

HasLiteralRole ==
    \E i \in DOMAIN RoleKeywordList : Contains(CandidateText, RoleKeywordList[i])
HasEquivalentRole ==
    \E i \in DOMAIN RoleKeywordList :
        /\ RoleKeywordList[i] \in DOMAIN get_role_equivalents
        /\ \E k \in DOMAIN get_role_equivalents[RoleKeywordList[i]] :
              Contains(CandidateText, Lower(get_role_equivalents[RoleKeywordList[i]][k]))

\* C7: the role score is the full role_weight when the job has no role
\* keywords or when any role keyword occurs in the raw text (wherever it
\* stands in the keyword list); else 75% of role_weight when an equivalent
\* phrase of some keyword occurs; else 0.
C7_RoleScore ==
    Returned =>
        result.role_score =
            IF Len(RoleKeywordList) = 0 THEN RInt(jd.role_weight)
            ELSE IF HasLiteralRole THEN RInt(jd.role_weight)
            ELSE IF HasEquivalentRole THEN Pct(75, jd.role_weight)
            ELSE RInt(0)

C9_PortfolioScore ==
    Returned =>
        /\ result.portfolio_score =
              IF ~HasPortfolioLink /\ KeywordsFound = 0 THEN RInt(0)
              ELSE IF Len(JobKeywordList) = 0 THEN Pct(80, jd.portfolio_weight)
              ELSE R((80 * Len(JobKeywordList) + 20 * KeywordsFound)
                        * jd.portfolio_weight,
                     100 * Len(JobKeywordList))
        /\ RLe(result.portfolio_score, RInt(jd.portfolio_weight))

\* C9 witness: no portfolio link, some but not all job keywords in the text
C9_Witness ==
    /\ Returned /\ jd.portfolio_weight > 0
    /\ ~HasPortfolioLink
    /\ KeywordsFound > 0 /\ KeywordsFound < Len(JobKeywordList)
    /\ RLt(Pct(80, jd.portfolio_weight), result.portfolio_score)

\* C10: the experience score is the full experience_weight for a candidate
\* with at least one experience entry and exactly 70% of it for a candidate
\* with none (empty or null); it is never 0 when experience_weight > 0.
C10_ExperienceScore ==
    Returned =>
        /\ ExperienceCount > 0 => result.experience_score = RInt(jd.experience_weight)
        /\ ExperienceCount = 0 => result.experience_score = Pct(70, jd.experience_weight)
        /\ jd.experience_weight > 0 => result.experience_score # RInt(0)

\* C10 witness: a candidate whose experience is null, scored at 70%
C10_Witness ==
    /\ Returned /\ jd.experience_weight > 0
    /\ candidate.experience = None
    /\ result.experience_score = Pct(70, jd.experience_weight)


----------------------------------------------------------------------------
(* Quality score, justification and frame of match_candidate (Spec) *)

HasContacts == Truthy(candidate.email) /\ Truthy(candidate.phone)

ExpectedQuality ==
    IF HasContacts THEN RInt(jd.quality_weight) ELSE Pct(90, jd.quality_weight)

\* C11: the quality score is 100% of quality_weight when the candidate has
\* both an email and a phone and 90% of quality_weight otherwise, and it is
\* the same for every value of ocr_quality_score (a number or null) the
\* candidate could carry instead of its own.
C11_QualityScore ==
    /\ _calculate_quality_score(candidate, jd).weighted = ExpectedQuality
    /\ \A o \in OcrScores :
         _calculate_quality_score([candidate EXCEPT !.ocr_quality_score = o],
                                  jd).weighted
           = _calculate_quality_score(candidate, jd).weighted
    /\ Returned => result.quality_score = ExpectedQuality

\* C11 witness: a returned result for a candidate with a high OCR quality
\* but no phone, scored at 90% of a positive quality weight.
C11_Witness ==
    /\ Returned /\ jd.quality_weight > 0
    /\ candidate.ocr_quality_score = Some(80)
    /\ Truthy(candidate.email) /\ ~Truthy(candidate.phone)
    /\ result.quality_score = Pct(90, jd.quality_weight)
    /\ result.quality_score # RInt(jd.quality_weight)

\* The position of a bullet in the fixed order of the justification; the
\* two role bullets share position 3, the fallback line has position 0.
BulletOrder(kind) ==
    CASE kind = "matches_required_skills"  -> 1
      [] kind = "missing_must_have_skills" -> 2
      [] kind = "matching_job_title"       -> 3
      [] kind = "equivalent_job_title"     -> 3
      [] kind = "proficient_in_tools"      -> 4
      [] kind = "missing_tools"            -> 5
      [] kind = "relevant_experience"      -> 6
      [] kind = "portfolio_references"     -> 7
      [] kind = "high_quality_cv"          -> 8
      [] OTHER                             -> 0

\* Whether the signal of the bullet at a position is non-empty for the
\* candidate and job scored
SignalPresent(pos) ==
    CASE pos = 1 -> (MustHaveSet \cap CandidateSkillSet) # {}
      [] pos = 2 -> (MustHaveSet \ CandidateSkillSet) # {}
      [] pos = 3 -> HasLiteralRole \/ HasEquivalentRole
      [] pos = 4 -> (RequiredToolSet \cap CandidateToolSet) # {}
      [] pos = 5 -> (RequiredToolSet \ CandidateToolSet) # {}
      [] pos = 6 -> ExperienceCount > 0
      [] pos = 7 -> HasPortfolioLink
      [] pos = 8 -> /\ candidate.ocr_quality_score # None
                    /\ candidate.ocr_quality_score[1] >= 80

JustificationOrder ==
    [i \in DOMAIN result.justification |->
        BulletOrder(result.justification[i].kind)]

RECURSIVE PresentFrom(_)
PresentFrom(pos) ==
    IF pos > 8 THEN <<>>
    ELSE (IF SignalPresent(pos) THEN <<pos>> ELSE <<>>) \o PresentFrom(pos + 1)

\* C12: the justification of a returned result has exactly the bullets
\* whose signal is non-empty, in the fixed order skills matched, must-have
\* skills missing, role match, tools matched, tools missing, experience
\* entries, portfolio references, quality flag; when no signal is present it
\* is the single line "Minimal matching criteria found"; and when the job
\* has one must-have skill and the candidate has it, the bullet
\* "Matches 1 of 1 required skills" is in it.
C12_Justification ==
    Returned =>
        /\ JustificationOrder =
              (IF PresentFrom(1) = <<>> THEN <<0>> ELSE PresentFrom(1))
        /\ (PresentFrom(1) = <<>>) =>
              result.justification =
                 <<Bullet("minimal_matching_criteria", 0, 0, <<>>)>>
        /\ (Cardinality(MustHaveSet) = 1 /\ MustHaveSet \subseteq CandidateSkillSet) =>
              \E i \in DOMAIN result.justification :
                 result.justification[i] =
                    Bullet("matches_required_skills", 1, 1, <<>>)

\* C12 witness: a justification of several bullets that starts with
\* "Matches 1 of 1 required skills", has the quality flag and leaves the
\* portfolio bullet out.
C12_Witness ==
    /\ Returned
    /\ Cardinality(MustHaveSet) = 1 /\ MustHaveSet \subseteq CandidateSkillSet
    /\ Len(result.justification) \in 3..6
    /\ result.justification[1] = Bullet("matches_required_skills", 1, 1, <<>>)
    /\ ~SignalPresent(7)
    /\ SignalPresent(8)

\* A step in which match_candidate was called: it left a result
CallStep == result' # result \/ prevResult' # prevResult

\* C13: a call of match_candidate changes no field of the candidate and no
\* field of the job description, and adds nothing to the stored match
\* results or any other table; only the returned result is new.
C13_InputsUnchanged ==
    [][CallStep => /\ candidate' = candidate
                   /\ jd' = jd
                   /\ matchResults' = matchResults
                   /\ candidates' = candidates
                   /\ jobs' = jobs]_vars

\* C13 witness: two calls have returned for a candidate whose skill list is
\* not in the lower case the scoring compares in, and nothing is stored.
C13_Witness ==
    /\ Returned /\ prevResult.status = "returned"
    /\ candidate.skills # None
    /\ LowerAll(candidate.skills[1]) # candidate.skills[1]
    /\ matchResults = <<>>
----------------------------------------------------------------------------
(* Properties of the job description specification (JDSpec) *)

\* C2: every job description that exists after any sequence of POST /jd and
\* PUT /jd/{jd_id} requests has six weights that sum to exactly 100, whichever
\* weights the creating request gave and whichever it left to their defaults.
C2_StoredWeightsSumTo100 ==
    \A id \in DOMAIN jobs :
        jobs[id].skill_weight + jobs[id].role_weight + jobs[id].tool_weight
          + jobs[id].experience_weight + jobs[id].portfolio_weight
          + jobs[id].quality_weight = 100

----------------------------------------------------------------------------
(* Properties of the matching specifications (MatchSpec, RerunSpec) *)

\* C3: in every reachable state, with the steps of two run_matching_task
\* executions for the same job interleaved, the stored match results hold at
\* most one result per (candidate, job) pair.
C3_AtMostOneResultPerPair ==
    \A c \in CandidateIds, j \in JobIds : ResultCount(matchResults, c, j) <= 1

InScope(c, batch_id) ==
    /\ candidates[c].extraction_status = "completed"
    /\ (batch_id = NoBatch \/ candidates[c].batch_id = batch_id)

Scorable(c) ==
    ~OcrComparisonRaises([ocr_quality |-> candidates[c].ocr_quality_score])

\* The loop of a run is over (before db.close())
LoopDone(t) == tasks[t].pc = "insert" /\ tasks[t].todo = <<>>

C14_ScoringFailureIsolated ==
    \A t \in TaskIds :
        (LoopDone(t) /\ session[t].active) =>
            \A c \in CandidateIds :
                (/\ InScope(c, tasks[t].batch_id)
                 /\ Scorable(c)
                 /\ c \notin session[t].failed)
                    => ResultCount(matchResults, c, tasks[t].jd_id) >= 1

----------------------------------------------------------------------------
(* Properties of the dictionary extraction (DictSpec) *)

\* The term stands in the lower-cased text with no word character right
\* before it and none right after it
OccursAsWholeWord(term, text) ==
    \E i \in 1..(Len(text) - Len(term) + 1) :
        /\ SubSeq(Lower(text), i, i + Len(term) - 1) = term
        /\ ~(i > 1 /\ IsWordChar(text[i - 1]))
        /\ ~(i + Len(term) <= Len(text) /\ IsWordChar(text[i + Len(term)]))

ExpectedTerms ==
    {t \in Range(LowerAll(termDict)) : Len(t) > 0 /\ OccursAsWholeWord(t, TextStr(cvLines))}

NoDuplicates(xs) == \A i, j \in DOMAIN xs : xs[i] = xs[j] => i = j

\* C18: an extraction returns exactly the dictionary terms that occur in the
\* text as a whole word, without regard to case, each once; this holds for
\* the terms with non-letter characters ("c++", "c#", "node.js") too.
C18_WholeWordTerms ==
    extracted.by # "none" =>
        /\ extracted.status = "returned"
        /\ Range(extracted.terms) = ExpectedTerms
        /\ NoDuplicates(extracted.terms)

\* C18 restricted to dictionary terms made of letters, digits and spaces
\* and to runs that return
PlainTerm(t) == \A i \in DOMAIN t : IsWordChar(t[i]) \/ t[i] = " "

C18_PlainTermsWholeWord ==
    (extracted.by # "none" /\ extracted.status = "returned") =>
        /\ {t \in Range(extracted.terms) : PlainTerm(t)}
              = {t \in ExpectedTerms : PlainTerm(t)}
        /\ NoDuplicates(extracted.terms)

----------------------------------------------------------------------------
(* Properties of the AI extraction (GeminiSpec, GeminiFairSpec) *)

CallSending == apiCall.pc = "sending"
CallDone == apiCall.pc = "done"

\* The latest request failed: a status other than 200, a timeout or
\* another exception of requests.post
LastRequestFailed == lastResponse.kind \in {"status429", "status500", "timeout", "exception"}

C17_AtMostThreeRequests ==
    /\ apiCall.requests <= retry_count
    /\ CallSending => apiCall.requests = apiCall.attempt - 1 /\ apiCall.attempt <= retry_count
    /\ CallDone => apiCall.status = "returned"
    /\ (CallDone /\ LastRequestFailed) => apiCall.ret = None

\* C17: a call _call_api(prompt, retry_count=3) sends at most 3 requests
\* whatever the service answers, returns None when its last attempt
\* fails, lets no exception out, and always comes to its end.
C17_BoundedRetries ==
    /\ []C17_AtMostThreeRequests
    /\ (CallSending ~> CallDone)

\* Three requests were sent, the third was answered 429 as well, and the
\* call returned None
C17_Witness ==
    /\ CallDone
    /\ apiCall.requests = retry_count
    /\ lastResponse.kind = "status429"
    /\ apiCall.status = "returned" /\ apiCall.ret = None

SectionKeys == {"name", "summary", "position", "discipline", "skills", "experience", "education", "projects", "certifications", "languages"}

ExtractReturned == sections.status # "none"

\* C16: extract_sections never raises and returns a mapping with the fixed
\* key set, whatever the service answered; with nothing extracted (parser
\* disabled, call failed) every field is null or empty.
C16_NeverRaisesFixedKeys ==
    ExtractReturned =>
        /\ sections.status = "returned"
        /\ DOMAIN sections.val = SectionKeys
        /\ (~geminiEnabled \/ apiCall.ret = None) => sections.val = _empty_result

\* C16 for the calls that return: the key set is the fixed one, and a
\* disabled parser or a failed call gives the empty result
C16_FixedKeysWhenReturned ==
    sections.status = "returned" =>
        /\ DOMAIN sections.val = SectionKeys
        /\ (~geminiEnabled \/ apiCall.ret = None) => sections.val = _empty_result

----------------------------------------------------------------------------
(* Claims about the rule-based parser *)

ExperienceRun == parsed.call = "experience"
ProjectsRun == parsed.call = "projects"
ParseRun == parsed.call = "parse"

\* The blocks _extract_experience cuts the text into, and those of them
\* that hold a date range
BlocksOf(cv) == ExperienceBlocks(_clean_lines(SplitLines(cv)), 1, <<>>, <<>>)
HasDateRange(block) == \E i \in DOMAIN block : date_search(block[i]).found
DatedBlocksOf(cv) == SelectSeq(BlocksOf(cv), HasDateRange)

\* The first candidate for each slot of a block: the two sides of a
\* "Title | Company" header, then the first role-keyword and the first
\* company-keyword line of block[:3]; the first date range of the block
FirstTitle(block) ==
    IF Contains(block[1], <<"|">>) /\ ~Unfilled(Case1(block[1]).job_title)
    THEN Case1(block[1]).job_title
    ELSE FirstLine(Head3(block), IsTitleLine)

FirstCompany(block) ==
    IF Contains(block[1], <<"|">>) /\ ~Unfilled(Case1(block[1]).company)
    THEN Case1(block[1]).company
    ELSE FirstLine(Head3(block), IsCompanyLine)

FirstDateRange(block) ==
    date_search(block[Least({i \in DOMAIN block : date_search(block[i]).found})])

\* C20: within one experience block the first match wins: the job title
\* and the company of an entry are those of its "Title | Company" header
\* when the header gives them and else the first keyword line, and its
\* start and end dates are those of the first date range of the block
C20_FirstMatchWins ==
    ExperienceRun =>
        LET blocks == DatedBlocksOf(cvLines)
        IN  /\ Len(parsed.val) = Len(blocks)
            /\ \A k \in DOMAIN blocks :
                  /\ parsed.val[k].job_title = FirstTitle(blocks[k])
                  /\ parsed.val[k].company = FirstCompany(blocks[k])
                  /\ parsed.val[k].start_date = Some(FirstDateRange(blocks[k]).group1)
                  /\ parsed.val[k].end_date = Some(FirstDateRange(blocks[k]).group3)

\* An entry whose header gave title and company although a role-keyword
\* line and a company-keyword line follow in the first three lines
C20_Witness ==
    /\ ExperienceRun
    /\ \E k \in DOMAIN DatedBlocksOf(cvLines) :
          LET block == DatedBlocksOf(cvLines)[k]
          IN  /\ Contains(block[1], <<"|">>)
              /\ \E i \in 2..Len(Head3(block)) : IsTitleLine(block[i])
              /\ \E i \in 2..Len(Head3(block)) : IsCompanyLine(block[i])
              /\ parsed.val[k].job_title = Case1(block[1]).job_title
              /\ parsed.val[k].company = Case1(block[1]).company
              /\ ~Unfilled(parsed.val[k].job_title)
              /\ ~Unfilled(parsed.val[k].company)

\* The validity of a project entry: a name of 2 to 25 words without a
\* blacklisted phrase, and a site, a role, a start or a responsibility
ValidProject(p) ==
    /\ p.project_name # None
    /\ WordCount(p.project_name[1]) \in 2..25
    /\ \A f \in DOMAIN FALSE_POSITIVES : ~Contains(Lower(p.project_name[1]), FALSE_POSITIVES[f])
    /\ \/ p.site_name # None /\ p.site_name # Some(<<>>)
       \/ p.role # None /\ p.role # Some(<<>>)
       \/ p.duration_start # None /\ p.duration_start # Some(<<>>)
       \/ p.responsibilities # <<>>

ProjectBlocksOf(cv) == ProjectBlocks(_clean_lines(SplitLines(cv)), 1, FALSE, <<>>, <<>>)

\* C19: every experience entry returned has a non-empty start date, the
\* blocks without one being dropped, and the project entries returned are
\* the parsed project blocks that are valid, in their order
C19_OutputValidated ==
    /\ ExperienceRun =>
          /\ \A k \in DOMAIN parsed.val :
                parsed.val[k].start_date # None /\ parsed.val[k].start_date # Some(<<>>)
          /\ Len(parsed.val) =
                Cardinality({b \in DOMAIN BlocksOf(cvLines) :
                                _parse_experience_block(BlocksOf(cvLines)[b]).start_date # None})
    /\ ProjectsRun =>
          /\ \A k \in DOMAIN parsed.val : ValidProject(parsed.val[k])
          /\ parsed.val =
                SelectSeq([b \in DOMAIN ProjectBlocksOf(cvLines) |->
                              _parse_project_block(ProjectBlocksOf(cvLines)[b])], ValidProject)

name_Riyadh_Metro == <<"R","i","y","a","d","h"," ","M","e","t","r","o"," ","S","t","a","t","i","o","n"," ","ndash"," ","P","h","a","s","e"," ","2">>
name_Microsoft_Office == <<"M","i","c","r","o","s","o","f","t"," ","O","f","f","i","c","e"," ","C","e","r","t","i","f","i","c","a","t","i","o","n">>

\* The block named "Riyadh Metro Station - Phase 2" is returned with its
\* role and duration, the block named "Microsoft Office Certification"
\* was parsed with a role and is not returned
C19_Witness ==
    /\ ProjectsRun
    /\ \E k \in DOMAIN parsed.val :
          /\ parsed.val[k].project_name = Some(name_Riyadh_Metro)
          /\ parsed.val[k].role # None
          /\ parsed.val[k].duration_start # None
    /\ \E b \in DOMAIN ProjectBlocksOf(cvLines) :
          LET project == _parse_project_block(ProjectBlocksOf(cvLines)[b])
          IN  /\ project.project_name = Some(name_Microsoft_Office)
              /\ project.role # None
              /\ \A k \in DOMAIN parsed.val : parsed.val[k].project_name # project.project_name

ProfileFields == {"name", "email", "phone", "linkedin", "portfolio_urls", "summary", "experience", "education", "skills", "tools", "projects", "certifications", "discipline", "position"}

\* Nothing to match: the text has no line left after cleaning
NothingToMatch(cv) == _clean_lines(SplitLines(cv)) = <<>>

\* C15: parse returns for every text, with every field in the profile,
\* and a field that matched nothing is null or an empty list: the
\* discipline when no discipline keyword is in the text, and every field
\* of a text that has only blank lines and page markers
C15_ParseIsTotal ==
    ParseRun =>
        /\ parsed.status = "returned"
        /\ DOMAIN parsed.val = ProfileFields
        /\ (\A d \in DOMAIN DisciplineNames : ~ContainsAny(Lower(TextStr(cvLines)), DisciplineKeys[d]))
              => parsed.val.discipline = None
        /\ NothingToMatch(cvLines) =>
              \A f \in ProfileFields : parsed.val[f] = <<>>

\* What holds on an interpreter that compiles every dictionary pattern:
\* the call returns and the profile has every field
C15_TotalWhenPatternsCompile ==
    (ParseRun /\ pyBuild = "py311") =>
        parsed.status = "returned" /\ DOMAIN parsed.val = ProfileFields
----------------------------------------------------------------------------
(* Null inputs and monotonicity of match_candidate (Spec) *)

\* A call of match_candidate has ended, by returning or by raising
Called == result.status # "none"

\* C27: match_candidate returns a MatchResult, without raising, for every
\* stored candidate, whichever of its optional fields (skills, tools,
\* experience, portfolio_urls, raw_text, email, phone, ocr_quality_score)
\* are null; a null OCR quality score yields no quality bullet.
C27_NullFieldsReturn ==
    Called =>
        /\ Returned
        /\ candidate.ocr_quality_score = None =>
              \A i \in DOMAIN result.justification :
                  result.justification[i].kind # "high_quality_cv"

\* With an OCR quality score stored, the nulls of every other optional field
\* are treated as empty and the call returns
C27_ReturnsWhenOcrScoreStored ==
    (Called /\ candidate.ocr_quality_score # None) => Returned

\* The candidate with one more entry in its skill list, or in its tool list
WithSkill(c, s) == [c EXCEPT !.skills = Some(OrEmpty(c.skills) \o <<s>>)]
WithTool(c, t)  == [c EXCEPT !.tools = Some(OrEmpty(c.tools) \o <<t>>)]

\* No score of the second result is below the same score of the first
NoScoreLower(r1, r2) ==
    /\ RLe(r1.skill_score, r2.skill_score)
    /\ RLe(r1.role_score, r2.role_score)
    /\ RLe(r1.tool_score, r2.tool_score)
    /\ RLe(r1.experience_score, r2.experience_score)
    /\ RLe(r1.portfolio_score, r2.portfolio_score)
    /\ RLe(r1.quality_score, r2.quality_score)
    /\ RLe(r1.total_score, r2.total_score)

\* The candidates that have one skill or one tool more than the one scored
Richer ==
    {WithSkill(candidate, s) : s \in CandidateSkillNames \cup JobSkillNames}
        \cup {WithTool(candidate, t) : t \in CandidateToolNames \cup JobToolNames}

\* C30: for the job scored, a candidate that has one skill or one tool more
\* and is otherwise the same is given no lower skill score, tool score,
\* other category score or total score by match_candidate.
C30_MonotoneInSkillsAndTools ==
    Returned =>
        \A c \in Richer :
            /\ match_candidate(c, jd, hashSeed).status = "returned"
            /\ NoScoreLower(result, match_candidate(c, jd, hashSeed))

\* C30 witness: a returned result with a must-have skill missing, where the
\* candidate with that skill added (in the CV's spelling) is given a higher
\* skill score and a higher total and no other score changes.
C30_Witness ==
    /\ Returned /\ jd.skill_weight > 0
    /\ str_revit \in MustHaveSet \ CandidateSkillSet
    /\ RLt(result.skill_score,
           match_candidate(WithSkill(candidate, str_Revit), jd, hashSeed).skill_score)
    /\ RLt(result.total_score,
           match_candidate(WithSkill(candidate, str_Revit), jd, hashSeed).total_score)
    /\ result.tool_score =
           match_candidate(WithSkill(candidate, str_Revit), jd, hashSeed).tool_score

----------------------------------------------------------------------------
(* Backing off on rate-limit responses (GeminiFairSpec) *)

\* A step in which a request was sent and answered 429
RateLimited == apiCall'.requests = apiCall.requests + 1 /\ lastResponse'.kind = "status429"

\* After the 429 of attempt k the call has slept 5 * k seconds more; before
\* the last attempt it goes on to the next attempt, and it returns only
\* from the last attempt
BacksOff ==
    RateLimited =>
        /\ apiCall'.slept = apiCall.slept + 5 * apiCall.attempt
        /\ apiCall.attempt < retry_count =>
              apiCall'.pc = "sending" /\ apiCall'.attempt = apiCall.attempt + 1
        /\ apiCall'.pc = "done" => apiCall.attempt = retry_count

\* The attempt after a 429 that was not the last has its request sent
RequestFollows(n) ==
    (CallSending /\ lastResponse.kind = "status429" /\ apiCall.requests = n)
        ~> (apiCall.requests = n + 1)

\* C25: a 429 response on attempt k makes _call_api wait 5 * k seconds
\* (5, 10 and 15 seconds on successive attempts); on an attempt before the
\* last it is always followed by another request, and the call never
\* returns on a 429 before its attempts are used up.
C25_BackoffOnRateLimit ==
    /\ [][BacksOff]_vars
    /\ \A n \in 1..(retry_count - 1) : RequestFollows(n)

\* C25 witness: three attempts were answered 429 one after another and the
\* call waited 5 + 10 + 15 seconds in all
C25_Witness ==
    /\ CallDone /\ lastResponse.kind = "status429"
    /\ apiCall.requests = retry_count
    /\ apiCall.slept = 5 + 10 + 15

----------------------------------------------------------------------------
(* Scope of a run and decisions on its results (ReviewSpec) *)

\* A step of run_matching_task execution t
RunStep(t) == tasks'[t] # tasks[t]

\* A result of the job of run t for a completed candidate in the run's scope
InRunScope(t, r) == r.jd_id = tasks[t].jd_id /\ InScope(r.candidate_id, tasks[t].batch_id)

\* A result that carries a decision
Flagged(r) == r.is_shortlisted \/ r.is_rejected

\* The stored results of a pair that carry a decision
FlaggedCount(c, j) ==
    ResultCount(matchResults, c, j) - matchResults[MatchRow(c, j)]

\* C26: every step of a batch-scoped run (batch_id given) leaves all stored
\* results as they are except those of its job for the completed candidates
\* of its batch: results of the job for candidates of other batches and all
\* results of other jobs are the same after the run as before it.
C26_BatchScopedFrame ==
    [][\A t \in TaskIds :
          (RunStep(t) /\ tasks[t].batch_id # NoBatch) =>
              \A r \in MatchRows :
                  matchResults'[r] # matchResults[r] => InRunScope(t, r)]_vars

\* C26 witness: the loop of a run for batchA is over; it has created anew
\* the result of a candidate of the batch that a decision had been stored
\* on, while the shortlisted result of the same job for a candidate of
\* another batch and a result of another job are still stored.
C26_Witness ==
    \E t \in TaskIds, c, d \in CandidateIds, j, k \in JobIds :
        /\ LoopDone(t) /\ tasks[t].batch_id = "batchA" /\ tasks[t].jd_id = j
        /\ InScope(c, "batchA") /\ <<c, j>> \in DecidedPairs
        /\ matchResults[MatchRow(c, j)] = 1 /\ FlaggedCount(c, j) = 0
        /\ candidates[d].batch_id = "batchB"
        /\ matchResults[Shortlisted(MatchRow(d, j))] = 1
        /\ k # j /\ ResultCount(matchResults, c, k) = 1

\* C29: a step of a run stores no result that carries a decision, and its
\* deletion leaves no result of its job for a candidate in its scope that
\* carries one: after the run, every such result is a record the run
\* created, with is_shortlisted = false and is_rejected = false.
C29_DecisionsNotKept ==
    [][\A t \in TaskIds :
          RunStep(t) =>
              \A r \in MatchRows :
                  Flagged(r) =>
                      /\ matchResults'[r] <= matchResults[r]
                      /\ (tasks[t].pc = "delete" /\ InRunScope(t, r)) => matchResults'[r] = 0]_vars

\* C29 witness: the loop of a run for all candidates of a job is over; a
\* decision had been stored on the result of a completed candidate for the
\* job, and its only result now is one without a decision.
C29_Witness ==
    \E t \in TaskIds, c \in CandidateIds :
        /\ LoopDone(t) /\ tasks[t].batch_id = NoBatch
        /\ InScope(c, NoBatch) /\ <<c, tasks[t].jd_id>> \in DecidedPairs
        /\ ResultCount(matchResults, c, tasks[t].jd_id) = 1
        /\ matchResults[MatchRow(c, tasks[t].jd_id)] = 1

----------------------------------------------------------------------------
(* Durations and regional experience (EvalSpec) *)

TotalRun == metrics.call = "calculate_total_experience"
EvaluateRun == metrics.call = "evaluate"

WorkHistory == OrEmpty(profile.experience)

\* What the statement calls a parsable date, and an end date that stands
\* for the current date
Parsable(date_str) == _parse_date(date_str, metrics.at).kind = "date"
IsNowWord(date_str) == Truthy(date_str) /\ Lower(Strip(date_str[1])) \in NowWords

Clamped(months) == IF months > 0 THEN months ELSE 0

\* The months of a work entry as the statement gives them, for the entries
\* it speaks about: no parsable start date, or a parsable start date with an
\* end date that is parsable or stands for the current date
StatedMonths(exp) ==
    IF ~Parsable(exp.start_date) THEN 0
    ELSE IF IsNowWord(exp.end_date)
         THEN Clamped(MonthsBetween(_parse_date(exp.start_date, metrics.at), metrics.at))
         ELSE Clamped(MonthsBetween(_parse_date(exp.start_date, metrics.at),
                                    _parse_date(exp.end_date, metrics.at)))

Stated(exp) == ~Parsable(exp.start_date) \/ IsNowWord(exp.end_date) \/ Parsable(exp.end_date)

RECURSIVE SumStated(_)
SumStated(entries) ==
    IF Len(entries) = 0 THEN 0 ELSE StatedMonths(entries[1]) + SumStated(Tail(entries))

\* The months of an entry depend on the moment of the call
DependsOnClock(exp) ==
    \E c1, c2 \in Clocks : ExperienceMonths(exp, c1) # ExperienceMonths(exp, c2)

\* C21: calculate_total_experience returns for every work history; each
\* entry adds (end.year - start.year) * 12 + (end.month - start.month)
\* months, at least 0, an entry with no parsable start date adds 0, and
\* only an end date of "present", "current" or "now" is taken as the date
\* of the call.
C21_DurationRule ==
    TotalRun =>
        /\ metrics.status = "returned"
        /\ (\A i \in DOMAIN WorkHistory : Stated(WorkHistory[i])) =>
              metrics.val.months = SumStated(WorkHistory)
        /\ \A i \in DOMAIN WorkHistory :
              (~IsNowWord(WorkHistory[i].start_date) /\ DependsOnClock(WorkHistory[i]))
                  => IsNowWord(WorkHistory[i].end_date)

\* The arithmetic of C21 where the call returns and every entry has dates
\* of the stated kinds: "2020-01" to "2022-03" adds 26 months
C21_DurationOfDatedEntries ==
    (TotalRun /\ metrics.status = "returned"
        /\ \A i \in DOMAIN WorkHistory : Stated(WorkHistory[i])) =>
            /\ metrics.val.months = SumStated(WorkHistory)
            /\ (Len(WorkHistory) = 1 /\ WorkHistory[1].start_date = Some(date_2020_01)
                    /\ WorkHistory[1].end_date = Some(date_2022_03)) =>
                  metrics.val.months = 26

\* A work entry counted as regional: its text contains a region keyword and
\* its start date is parsable
Regional(exp) == _has_gcc_reference(exp) /\ Parsable(exp.start_date)

RECURSIVE SumRegional(_)
SumRegional(entries) ==
    IF Len(entries) = 0 THEN 0
    ELSE (IF Regional(entries[1]) THEN ExperienceMonths(entries[1], metrics.at).months ELSE 0)
         + SumRegional(Tail(entries))

\* C22: the regional years evaluate returns are the sum of the durations of
\* the regional work entries and of nothing else, so they are at most the
\* total experience years.
C22_RegionalFromWorkHistory ==
    (EvaluateRun /\ metrics.status = "returned") =>
        /\ metrics.val.gcc_months = SumRegional(WorkHistory)
        /\ metrics.val.gcc_experience_years = YearsOf(SumRegional(WorkHistory))
        /\ metrics.val.gcc_experience_years <= metrics.val.total_experience_years

\* C22 for extracted data without projects
C22_RegionalWithoutProjects ==
    (EvaluateRun /\ metrics.status = "returned" /\ OrEmpty(profile.projects) = <<>>) =>
        /\ metrics.val.gcc_months = SumRegional(WorkHistory)
        /\ metrics.val.gcc_experience_years <= metrics.val.total_experience_years

----------------------------------------------------------------------------
(* Confidence of a merged profile (ConfidenceSpec) *)

ConfidenceRun == metrics.call = "calculate_confidence"

ConfidenceFields == {"name", "summary", "experience", "projects", "skills", "education"}

\* Presence of a field as the statement counts it
Present(merged, field) ==
    IF field = "skills" THEN Len(OrEmpty(merged.skills)) >= 3
    ELSE IF field \in {"experience", "projects"} THEN Len(OrEmpty(merged[field])) >= 1
    ELSE Truthy(merged[field])

\* The merged dictionaries that differ from merged in one field, absent in
\* merged and present in them
MadePresent(merged, field) ==
    {other \in MergedProfiles :
        /\ ~Present(merged, field) /\ Present(other, field)
        /\ \A f \in ConfidenceFields \ {field} : other[f] = merged[f]}

NeverLowered(merged) ==
    \A field \in ConfidenceFields : \A other \in MadePresent(merged, field) :
        calculate_confidence(other) >= calculate_confidence(merged)

\* The score with the points of the skills on top of the other fields' points
WithSkillsPoints(merged) == min(calculate_confidence([merged EXCEPT !.skills = None]) + 15, 100)

\* C23: calculate_confidence returns an integer in 0..100, no field made
\* present lowers it, and a profile with at least 3 skills is awarded the
\* skills points.
C23_ConfidenceRule ==
    ConfidenceRun =>
        /\ metrics.val \in 0..100
        /\ NeverLowered(profile)
        /\ Len(OrEmpty(profile.skills)) >= 3 => metrics.val = WithSkillsPoints(profile)

\* The part of C23 the code keeps: range, monotonicity, and the skills
\* points from 4 skills on
C23_ConfidenceMonotone ==
    ConfidenceRun =>
        /\ metrics.val \in 0..100
        /\ NeverLowered(profile)
        /\ Len(OrEmpty(profile.skills)) > 3 => metrics.val = WithSkillsPoints(profile)
        /\ Len(OrEmpty(profile.skills)) <= 3 =>
              metrics.val = calculate_confidence([profile EXCEPT !.skills = None])

----------------------------------------------------------------------------
(* Batch processing (BatchSpec) *)

FilePass == batch.pc = "files" /\ batch'.next = batch.next + 1
FileRaises == process_file(batch.file_paths[batch.next], batch.batch_id, candidates).status = "raised"

Counted(row) == row.processed_files + row.failed_files

\* C24: a file that fails adds one to failed_files and the loop goes on to
\* the next file; the batch is never FAILED because of a file; the sum of
\* processed_files and failed_files never exceeds the number of files and
\* equals it once the batch is COMPLETED.
C24_PartialSuccess ==
    /\ [][(FilePass /\ FileRaises) =>
             /\ batch'.failed_files = batch.failed_files + 1
             /\ batch'.processed_files = batch.processed_files
             /\ batch'.status = "processing"
             /\ batch'.pc = "files"]_vars
    /\ [](/\ batch.status # "failed"
          /\ Counted(batch) <= Len(batch.file_paths)
          /\ batch.status = "completed" => Counted(batch) = Len(batch.file_paths))

\* A completed batch of three files, the second of which failed
C24_Witness ==
    /\ batch.status = "completed"
    /\ Len(batch.file_paths) = 3
    /\ extract_text(batch.file_paths[1]) = "text"
    /\ extract_text(batch.file_paths[2]) = "raised"
    /\ extract_text(batch.file_paths[3]) = "text"
    /\ batch.processed_files = 2 /\ batch.failed_files = 1

\* C28: when the batch is COMPLETED, the completed candidates stored for it,
\* which are those run_matching_task reads for the batch, are as many as
\* processed_files: one per file counted as processed.
C28_OneCandidatePerProcessedFile ==
    batch.status = "completed" =>
        Cardinality(CandidatesOfBatch(candidates, batch.batch_id)) = batch.processed_files

\* What the code keeps of C28: a file counted as failed stores no candidate,
\* and the candidates of other batches are left alone
C28_NoCandidateForFailedFile ==
    /\ Cardinality(CandidatesOfBatch(candidates, batch.batch_id)) <= batch.processed_files
    /\ Cardinality(CandidatesOfBatch(candidates, "batchB")) = Len(candidates)

=============================================================================
